---- MODULE Spec2Model ----
(***************************************************************************)
(* A model of the nuwa-build build backend: wheel naming, compiler command *)
(* construction, override merging, MANIFEST.in filtering and the           *)
(* build_wheel / build_editable pipelines.                                 *)
(*                                                                         *)
(* Text is modelled as a sequence of symbols (one-character strings, or    *)
(* short chunks where the code never looks inside them), so that replace,  *)
(* split, concatenation and glob matching are computed, not assumed.       *)
(***************************************************************************)
EXTENDS Integers, Sequences, FiniteSets, Bags, TLC

VARIABLES
    \* --- wheel file name (utils.get_wheel_tags, build_wheel lines 500-506)
    wnName, wnVersion, wnTag, wnDir, wnPc, wnWheelName, wnWheelTag, wnReturned,
    \* --- compiler command (backend._build_nim_command)
    cmdEntry, cmdOut, cmdBuildType, cmdFlags, cmdNimDir, cmdNimblePath,
    cmdDirs, cmdPc, cmdResult,
    \* --- override merging (config.merge_cli_args)
    mgConfig, mgCli, mgPc, mgResult,
    mgHeap,        \* the objects of the caller and of the calls, by address
    mgResults,     \* what each call of merge_cli_args returned
    \* --- MANIFEST.in filtering (pep517_hooks._parse_manifest,
    \*     _add_files_from_manifest)
    mfLines, mfFiles, mfPc, mfCommands, mfWritten,
    \* --- the build hooks (pep517_hooks.build_wheel, build_editable,
    \*     backend._compile_nim)
    bdHook,        \* "wheel" | "editable": the hook being run
    bdName,        \* [project] name of pyproject.toml, <<>> when it has none
    bdPlatform,    \* [platform, ext, tag]: sys.platform, EXT_SUFFIX, sys_tags
    bdBundle,      \* bundle-adjacent-dlls of [tool.nuwa]
    bdAllowBinaries, \* allow-manifest-binaries of [tool.nuwa]
    bdDeps,        \* nimble-deps of [tool.nuwa]
    bdManifest,    \* [present, lines]: MANIFEST.in
    bdFs,          \* paths of the files in the project directory
    bdPc,          \* the next step of the hook
    bdReturncode,  \* [ran, code]: the compiler subprocess
    bdStdout,      \* the compiler's stdout lines, by kind
    bdCmd,         \* the command handed to the subprocess
    bdSoFile,      \* the path _compile_nim returned
    bdStubWritten, \* whether this build wrote a .pyi file
    bdAttempts,    \* the nimble subprocesses run, in order
    bdCopied,      \* the paths copy_mingw_runtime_dlls wrote
    bdDeleted,     \* the paths the build unlinked
    bdWheelDir,    \* names of the archives created in wheel_directory
    bdArchive,     \* bag of the entries written to the archive
    bdArchiveState,\* "none" | "open" | "closed"
    bdPrinted,     \* what the build printed, by kind
    bdError,       \* the exception that ended the hook, "none" if none
    bdMessage,     \* what the message of that exception says, "" if none
    bdNim,         \* what check_nim_installed found on PATH, "unknown" before
    bdResult,      \* the file name the hook returned, <<>> if none
    \* --- configuration resolution (config.parse_nuwa_config, followed in a
    \*     build by merge_cli_args and the compiler command; backend
    \*     lines 270-330)
    rsMode,        \* "build": _compile_nim | "parse": parse_nuwa_config called twice
    rsFile,        \* pyproject.toml as it is on disk
    rsProfile,     \* the profile argument, NoProfile for None
    rsPlatform,    \* sys.platform
    rsOverrides,   \* the config_overrides dictionary of the caller
    rsPc,          \* the next step
    rsDoc,         \* the document the next call of parse_nuwa_config works on
    rsFirst,       \* outcome of the first call of parse_nuwa_config
    rsSecond,      \* outcome of the second call
    rsConfig,      \* the configuration the build uses after the merge
    rsCmd,         \* the command handed to the compiler, <<>> if none
    rsError,       \* the exception that ended the run, "none" if none
    \* --- compiler diagnostics (errors.parse_nim_error,
    \*     format_compilation_error)
    erStderr,      \* the text of the compiler's stderr
    erSource,      \* [readable, lines]: the source file a diagnostic names
    erPc, erParsed, erFormatted,
    \* --- stub metadata (stubs.StubGenerator.parse_stubs)
    stDirExists,   \* whether stub_dir exists
    stFiles,       \* the files of stub_dir, by kind
    stStdout,      \* the lines of the compiler output, by kind
    stPc, stEntries, stCount,
    \* --- watch mode (watch.run_watch, watch.NimFileHandler)
    wtClock,       \* time.time(), in ticks
    wtQueue,       \* modification events the observer has not dispatched yet
    wtLastCompile, \* NimFileHandler.last_compile
    wtMainPc,      \* position of run_watch on the main thread
    wtObserverPc,  \* position of the observer's dispatch thread
    wtStarts,      \* the times at which on_modified called _compile_nim
    wtLog,   \* the events on_modified has handled
    \* --- error reporting of the commands (cli.format_error, cli.handle_cli_error)
    feMode,        \* who catches the exception: a CLI command or watch mode
    feError,       \* the exception the command raised
    feStdout,      \* what has been printed
    feExit,        \* the exit status, once sys.exit was called
    fePc,
    \* --- source context of a diagnostic (errors.get_error_context)
    cxSource,      \* the source file: whether it can be read, its line count
    cxLine,        \* line_num
    cxPc, cxContext, cxIndex

wnVars == <<wnName, wnVersion, wnTag, wnDir, wnPc, wnWheelName, wnWheelTag, wnReturned>>

cmdVars == <<cmdEntry, cmdOut, cmdBuildType, cmdFlags, cmdNimDir, cmdNimblePath,
             cmdDirs, cmdPc, cmdResult>>

mgVars == <<mgConfig, mgCli, mgPc, mgResult, mgHeap, mgResults>>

mfVars == <<mfLines, mfFiles, mfPc, mfCommands, mfWritten>>

bdInputs == <<bdHook, bdName, bdPlatform, bdBundle, bdAllowBinaries, bdDeps,
              bdManifest>>

bdCompileVars == <<bdReturncode, bdStdout, bdCmd, bdSoFile, bdStubWritten, bdAttempts>>

bdDiskVars == <<bdFs, bdCopied, bdDeleted>>

bdArchiveVars == <<bdWheelDir, bdArchive, bdArchiveState>>

bdFailure == <<bdError, bdMessage>>

bdVars == <<bdInputs, bdPc, bdCompileVars, bdDiskVars, bdArchiveVars, bdPrinted,
            bdFailure, bdNim, bdResult>>

rsVars == <<rsMode, rsFile, rsProfile, rsPlatform, rsOverrides, rsPc, rsDoc,
            rsFirst, rsSecond, rsConfig, rsCmd, rsError>>

erVars == <<erStderr, erSource, erPc, erParsed, erFormatted>>

stVars == <<stDirExists, stFiles, stStdout, stPc, stEntries, stCount>>

wtVars == <<wtClock, wtQueue, wtLastCompile, wtMainPc, wtObserverPc, wtStarts, wtLog>>

feVars == <<feMode, feError, feStdout, feExit, fePc>>

cxVars == <<cxSource, cxLine, cxPc, cxContext, cxIndex>>

vars == <<wnVars, cmdVars, mgVars, mfVars, bdVars, rsVars, erVars, stVars, wtVars, feVars, cxVars>>

(***************************************************************************)
(* Bounds of the model.                                                    *)
(***************************************************************************)
MaxNameLen == 3
MaxVersionLen == 3
MaxFlags == 2
MaxBaseFlags == 1
MaxCliFlags == 2
MaxOverrideKeys == 2
MaxManifestLines == 2
MaxPatterns == 2

(***************************************************************************)
(* Generic sequence helpers.                                               *)
(***************************************************************************)
\* All sequences over S of length lo..hi.
SeqsOf(S, lo, hi) == UNION {[1..n -> S] : n \in lo..hi}

\* Positions of symbol c in s.
Positions(s, c) == {i \in 1..Len(s) : s[i] = c}

Min(S) == CHOOSE x \in S : \A y \in S : x <= y
Max(S) == CHOOSE x \in S : \A y \in S : x >= y

\* s[from..to] (1-based, inclusive), empty when from > to.
Slice(s, from, to) == IF from > to THEN <<>> ELSE SubSeq(s, from, to)

(***************************************************************************)
(* Wheel file name.                                                        *)
(***************************************************************************)
\* str.replace("-", "_") restricted to the first hyphen: a plausible slip.
NormalizePackageName_FirstOnly(name) ==
    IF Positions(name, "-") = {} THEN name
    ELSE [i \in 1..Len(name) |->
            IF i = Min(Positions(name, "-")) THEN "_" ELSE name[i]]

\* utils.normalize_package_name: name.replace("-", "_")
NormalizePackageName(name) ==
    [i \in 1..Len(name) |-> IF name[i] = "-" THEN "_" ELSE name[i]]

WhlExt == <<".", "w", "h", "l">>

\* utils.get_wheel_tags, with the hyphen replacement applied to the whole stem.
GetWheelTags_NormalizeAll(name, version, tag) ==
    NormalizePackageName(name \o <<"-">> \o version \o <<"-">> \o tag) \o WhlExt

\* utils.get_wheel_tags: f"{name_normalized}-{version}-{tag}.whl"; tag is
\* str(next(sys_tags())), supplied by the interpreter.
GetWheelTags(name, version, tag) ==
    NormalizePackageName(name) \o <<"-">> \o version \o <<"-">> \o tag \o WhlExt

\* str.split("-", 2)[2]: what follows the second hyphen. The caller only uses
\* it on strings with at least two hyphens.
SplitHyphen2Third(s) ==
    LET h1 == Min(Positions(s, "-"))
        h2 == Min({i \in Positions(s, "-") : i > h1})
    IN  Slice(s, h2 + 1, Len(s))

\* Path(wheel_directory) / wheel_name
JoinPath(dir, name) == dir \o <<"/">> \o name

\* Path.name: the final path component.
PathName(p) ==
    IF Positions(p, "/") = {} THEN p
    ELSE Slice(p, Max(Positions(p, "/")) + 1, Len(p))

NameAlphabet == {"a", "-"}
VersionAlphabet == {"1", ".", "-"}
\* Compatibility tags as sys_tags() renders them: interpreter-abi-platform.
SysTags == { <<"c","p","3","-","c","p","3","-","l","i","n","_","x">>,
             <<"p","y","3","-","n","o","n","e","-","a","n","y">> }
WheelDirs == { <<"d","i","s","t">>, <<"/","t","m","p","/","w">> }

WnNone == <<>>

WnInit ==
    /\ wnName \in SeqsOf(NameAlphabet, 1, MaxNameLen)
    /\ wnVersion \in SeqsOf(VersionAlphabet, 1, MaxVersionLen)
    /\ wnTag \in SysTags
    /\ wnDir \in WheelDirs
    /\ wnPc = "start"
    /\ wnWheelName = WnNone
    /\ wnWheelTag = WnNone
    /\ wnReturned = WnNone

\* build_wheel lines 503-506 and 525: the file name, the tag cut back out of
\* it, the archive path and the returned name.
WheelNameStep ==
    /\ wnPc = "start"
    /\ wnWheelName' = GetWheelTags(wnName, wnVersion, wnTag)
    /\ wnWheelTag' = SplitHyphen2Third(Slice(wnWheelName', 1, Len(wnWheelName') - 4))
    /\ wnReturned' = PathName(JoinPath(wnDir, wnWheelName'))
    /\ wnPc' = "named"
    /\ UNCHANGED <<wnName, wnVersion, wnTag, wnDir>>

WnIdle ==
    /\ wnName = <<"a">> /\ wnVersion = <<"1">> /\ wnTag = <<>> /\ wnDir = <<>>
    /\ wnPc = "idle" /\ wnWheelName = WnNone /\ wnWheelTag = WnNone
    /\ wnReturned = WnNone

(***************************************************************************)
(* Compiler command.  A command is a sequence of arguments; an argument is *)
(* a tuple of strings: the fixed option text followed by the values the    *)
(* f-string interpolates into it.                                          *)
(***************************************************************************)
NoPath == "None"
NIM_APP_LIB_FLAG == "--app:lib"

\* The local dependency flag of _build_nim_command, lines 115-122: pkgs2 is
\* looked for first, then pkgs; `dirs` are the subdirectories that exist.
NimblePathArgs(nimble_path, dirs) ==
    IF nimble_path = NoPath THEN <<>>
    ELSE LET pkgs_path == IF "pkgs2" \in dirs THEN "pkgs2" ELSE "pkgs"
         IN  IF pkgs_path \in dirs
             THEN << <<"--nimblePath:", nimble_path, pkgs_path>> >>
             ELSE <<>>

\* Each user flag as a one-string argument.
FlagArgs(nim_flags) == [i \in 1..Len(nim_flags) |-> <<nim_flags[i]>>]

\* _build_nim_command with the release flag appended after the user flags.
BuildNimCommand_ReleaseAfterFlags(entry_point, output_path, build_type, nim_flags, nim_dir, nimble_path, dirs) ==
    << <<"nim">>, <<"c">>, <<NIM_APP_LIB_FLAG>>, <<"--out:", output_path>> >>
    \o << <<"--path:", nim_dir>> >>
    \o NimblePathArgs(nimble_path, dirs)
    \o FlagArgs(nim_flags)
    \o (IF build_type = "release" THEN << <<"-d:release">> >> ELSE <<>>)
    \o << <<entry_point>> >>

\* backend._build_nim_command
BuildNimCommand(entry_point, output_path, build_type, nim_flags, nim_dir, nimble_path, dirs) ==
    << <<"nim">>, <<"c">>, <<NIM_APP_LIB_FLAG>>, <<"--out:", output_path>> >>
    \o << <<"--path:", nim_dir>> >>
    \o NimblePathArgs(nimble_path, dirs)
    \o (IF build_type = "release" THEN << <<"-d:release">> >> ELSE <<>>)
    \o (IF nim_flags # <<>> THEN FlagArgs(nim_flags) ELSE <<>>)
    \o << <<entry_point>> >>

NimFlagValues == {"-d:danger", "-d:release", "--cc:vcc"}
BuildTypes == {"release", "debug"}

CmdInit ==
    /\ cmdEntry \in {"nim/a_lib.nim", "src/main.nim"}
    /\ cmdOut \in {"a_lib.so", "pkg/a_lib.pyd"}
    /\ cmdBuildType \in BuildTypes
    /\ cmdFlags \in SeqsOf(NimFlagValues, 0, MaxFlags)
    /\ cmdNimDir \in {"nim"}
    /\ cmdNimblePath \in {NoPath, ".nimble"}
    /\ cmdDirs \in SUBSET {"pkgs2", "pkgs"}
    /\ cmdPc = "start"
    /\ cmdResult = <<>>

BuildNimCommandStep ==
    /\ cmdPc = "start"
    /\ cmdResult' = BuildNimCommand(cmdEntry, cmdOut, cmdBuildType, cmdFlags,
                                    cmdNimDir, cmdNimblePath, cmdDirs)
    /\ cmdPc' = "built"
    /\ UNCHANGED <<cmdEntry, cmdOut, cmdBuildType, cmdFlags, cmdNimDir,
                   cmdNimblePath, cmdDirs>>

CmdIdle ==
    /\ cmdEntry = "" /\ cmdOut = "" /\ cmdBuildType = "" /\ cmdFlags = <<>>
    /\ cmdNimDir = "" /\ cmdNimblePath = NoPath /\ cmdDirs = {}
    /\ cmdPc = "idle" /\ cmdResult = <<>>

(***************************************************************************)
(* Override merging.  A configuration is a record with the keys of the     *)
(* dictionary parse_nuwa_config returns.  An override dictionary is a      *)
(* record with one entry per key merge_cli_args reads: [set, val], set     *)
(* FALSE standing for a key that is absent or None (merge_cli_args reads   *)
(* every key through .get() or an "in ... is not None" test, so the two    *)
(* behave alike).  A string value is the sequence of its pieces, the       *)
(* empty string being <<>>.                                                *)
(***************************************************************************)
DirectKeys == {"module_name", "nim_source", "entry_point", "allow_manifest_binaries",
               "windows_static_linking", "bundle_adjacent_dlls"}
OverrideKeys == DirectKeys \cup {"output_location", "output_dir", "nim_flags"}

UnsetStr == [set |-> FALSE, val |-> <<>>]
UnsetBool == [set |-> FALSE, val |-> FALSE]
UnsetFlags == [set |-> FALSE, val |-> <<>>]

\* `if cli_args.get(key):` for a string, a boolean and a list value.
TruthyStr(o) == o.set /\ o.val # <<>>
TruthyBool(o) == o.set /\ o.val
TruthyList(o) == o.set /\ o.val # <<>>

\* merge_cli_args lines 188-192 with the two tests in the other order.
MergedOutputLocation_DirFirst(config, cli_args) ==
    IF cli_args.output_dir.set THEN cli_args.output_dir.val
    ELSE IF cli_args.output_location.set THEN cli_args.output_location.val
    ELSE config.output_location

\* merge_cli_args lines 188-192: output_location wins over output_dir.
MergedOutputLocation(config, cli_args) ==
    IF cli_args.output_location.set THEN cli_args.output_location.val
    ELSE IF cli_args.output_dir.set THEN cli_args.output_dir.val
    ELSE config.output_location

\* merge_cli_args with the override flags replacing the base flags.
MergedNimFlags_Replace(config, cli_args) ==
    IF TruthyList(cli_args.nim_flags) THEN cli_args.nim_flags.val
    ELSE config.nim_flags

\* merge_cli_args lines 194-196: result.get("nim_flags", []) + cli_args["nim_flags"]
MergedNimFlags(config, cli_args) ==
    IF TruthyList(cli_args.nim_flags)
    THEN config.nim_flags \o cli_args.nim_flags.val
    ELSE config.nim_flags

\* config.merge_cli_args
MergeCliArgs(config, cli_args) ==
    [config EXCEPT
        !.module_name = IF TruthyStr(cli_args.module_name)
                        THEN cli_args.module_name.val ELSE @,
        !.nim_source = IF TruthyStr(cli_args.nim_source)
                       THEN cli_args.nim_source.val ELSE @,
        !.entry_point = IF TruthyStr(cli_args.entry_point)
                        THEN cli_args.entry_point.val ELSE @,
        !.allow_manifest_binaries = IF TruthyBool(cli_args.allow_manifest_binaries)
                                    THEN cli_args.allow_manifest_binaries.val ELSE @,
        !.windows_static_linking = IF TruthyBool(cli_args.windows_static_linking)
                                   THEN cli_args.windows_static_linking.val ELSE @,
        !.bundle_adjacent_dlls = IF TruthyBool(cli_args.bundle_adjacent_dlls)
                                 THEN cli_args.bundle_adjacent_dlls.val ELSE @,
        !.output_location = MergedOutputLocation(config, cli_args),
        !.nim_flags = MergedNimFlags(config, cli_args)]

MergeFlagValues == {"--opt:speed", "-d:release"}

\* The values an override key may carry when it is present.
OptStr(D, k, vals) == IF k \in D THEN {[set |-> TRUE, val |-> v] : v \in vals}
                      ELSE {UnsetStr}
OptBool(D, k) == IF k \in D THEN {[set |-> TRUE, val |-> v] : v \in BOOLEAN}
                 ELSE {UnsetBool}
OptFlags(D, k) == IF k \in D
                  THEN {[set |-> TRUE, val |-> v] : v \in SeqsOf(MergeFlagValues, 0, MaxCliFlags)}
                  ELSE {UnsetFlags}

\* Override dictionaries with the keys D present.
OverridesWith(D) ==
    [module_name : OptStr(D, "module_name", {<<>>, <<"new_module">>}),
     nim_source : OptStr(D, "nim_source", {<<>>, <<"src/nim">>}),
     entry_point : OptStr(D, "entry_point", {<<>>, <<"main.nim">>}),
     allow_manifest_binaries : OptBool(D, "allow_manifest_binaries"),
     windows_static_linking : OptBool(D, "windows_static_linking"),
     bundle_adjacent_dlls : OptBool(D, "bundle_adjacent_dlls"),
     output_location : OptStr(D, "output_location", {<<>>, <<"Y">>}),
     output_dir : OptStr(D, "output_dir", {<<"X">>}),
     nim_flags : OptFlags(D, "nim_flags")]

Overrides ==
    UNION {OverridesWith(D) : D \in {E \in SUBSET OverrideKeys : Cardinality(E) <= MaxOverrideKeys}}

NoOverrides == OverridesWith({})

\* Base configurations as parse_nuwa_config returns them (lines 102-114).
BaseConfigs ==
    [nim_source : {<<"nim">>},
     module_name : {<<"test">>},
     lib_name : {<<"test_lib">>},
     entry_point : {<<"test_lib.nim">>},
     output_location : {<<"auto">>},
     nim_flags : SeqsOf(MergeFlagValues, 0, MaxBaseFlags),
     bindings : {<<"nimpy">>},
     nimble_deps : {<<>>},
     allow_manifest_binaries : BOOLEAN,
     windows_static_linking : BOOLEAN,
     bundle_adjacent_dlls : BOOLEAN]

MaxMerges == 2

\* The objects merge_cli_args is handed, by address: the base dictionary and
\* the list under its "nim_flags", the override dictionary and the list under
\* its "nim_flags" (empty and never read when the key is absent).  A
\* dictionary holds its strings and booleans and the address of its list.
Addr == [config |-> 1, config_flags |-> 2, cli_args |-> 3, cli_flags |-> 4]

HeapOf(config, cli_args) ==
    << [config EXCEPT !.nim_flags = Addr.config_flags],
       config.nim_flags,
       [cli_args EXCEPT !.nim_flags.val = Addr.cli_flags],
       cli_args.nim_flags.val >>

\* The dictionaries as values: each list address replaced by the list.
ConfigAt(heap, addr) == [heap[addr] EXCEPT !.nim_flags = heap[@]]
CliArgsAt(heap, addr) == [heap[addr] EXCEPT !.nim_flags.val = heap[@]]

\* Line 196 with the concatenation done on the list result["nim_flags"]
\* refers to (list.extend, +=), which config.copy() shares with config.
FlagsObject_InPlace(heap, result) == heap[Addr.config].nim_flags

\* Line 196: `+` builds a new list, and result["nim_flags"] is bound to it.
FlagsObject(heap, result) == result + 1

\* merge_cli_args on the heap: result = config.copy() is a new dictionary
\* with the values of config, its "nim_flags" still the list of config; the
\* keys are then assigned in result, and a non-empty override flag list puts
\* the concatenation into the list FlagsObject names.
MergeOnHeap(heap) ==
    LET config == ConfigAt(heap, Addr.config)
        cli_args == CliArgsAt(heap, Addr.cli_args)
        merged == MergeCliArgs(config, cli_args)
        result == Len(heap) + 1
        copied == Append(heap, [merged EXCEPT !.nim_flags = heap[Addr.config].nim_flags])
    IN  IF TruthyList(cli_args.nim_flags)
        THEN LET flags == FlagsObject(heap, result)
                 bound == [copied EXCEPT ![result].nim_flags = flags]
             IN  [result |-> result,
                  heap |-> IF flags > Len(bound)
                           THEN Append(bound, merged.nim_flags)
                           ELSE [bound EXCEPT ![flags] = merged.nim_flags]]
        ELSE [result |-> result, heap |-> copied]

MgInit ==
    /\ mgConfig \in BaseConfigs
    /\ mgCli \in Overrides
    /\ mgPc = "start"
    /\ mgResult = mgConfig
    /\ mgHeap = HeapOf(mgConfig, mgCli)
    /\ mgResults = <<>>

\* One call merge_cli_args(config, cli_args) on the caller's two objects;
\* the caller may call again with the same objects.
MergeCliArgsStep ==
    /\ mgPc \in {"start", "merged"}
    /\ Len(mgResults) < MaxMerges
    /\ LET call == MergeOnHeap(mgHeap)
       IN  /\ mgHeap' = call.heap
           /\ mgResult' = ConfigAt(call.heap, call.result)
           /\ mgResults' = Append(mgResults, [addr |-> call.result,
                                              value |-> mgResult'])
    /\ mgPc' = "merged"
    /\ UNCHANGED <<mgConfig, mgCli>>

MgIdle ==
    /\ mgConfig = [nim_flags |-> <<>>]
    /\ mgCli = [nim_flags |-> UnsetFlags]
    /\ mgPc = "idle"
    /\ mgResult = [nim_flags |-> <<>>]
    /\ mgHeap = <<>>
    /\ mgResults = <<>>

(***************************************************************************)
(* Files and glob matching.  A name or a pattern is a sequence of chunks   *)
(* ("keep", ".txt"; "*", ".txt"); a path is a sequence of names; a file    *)
(* tree is the set of the paths of its files, its directories being the    *)
(* proper prefixes of those.                                               *)
(***************************************************************************)
Range(f) == {f[i] : i \in DOMAIN f}

\* fnmatch.fnmatch(name, pattern) with "*" as the only wildcard.
RECURSIVE FnMatch(_, _)
FnMatch(name, pattern) ==
    IF pattern = <<>> THEN name = <<>>
    ELSE IF Head(pattern) = "*"
         THEN \E k \in 0..Len(name) :
                 FnMatch(Slice(name, k + 1, Len(name)), Tail(pattern))
         ELSE /\ name # <<>>
              /\ Head(name) = Head(pattern)
              /\ FnMatch(Tail(name), Tail(pattern))

\* pattern.split("/")
RECURSIVE SplitSlash(_)
SplitSlash(pattern) ==
    IF Positions(pattern, "/") = {} THEN <<pattern>>
    ELSE LET i == Min(Positions(pattern, "/"))
         IN  <<Slice(pattern, 1, i - 1)>> \o SplitSlash(Slice(pattern, i + 1, Len(pattern)))

Last(s) == s[Len(s)]

IsPrefix(p, q) == Len(p) <= Len(q) /\ Slice(q, 1, Len(p)) = p

\* Directories of a tree: the proper prefixes of its files' paths.
Dirs(files) == UNION {{Slice(f, 1, n) : n \in 1..(Len(f) - 1)} : f \in files}

IsFile(files, p) == p \in files
IsDir(files, p) == p \in Dirs(files)

\* Files and directories strictly below base.
Below(files, base) ==
    {p \in files \cup Dirs(files) : IsPrefix(base, p) /\ Len(p) > Len(base)}

\* Path.glob(pattern) from base: one path component per pattern segment.
Glob(files, base, pattern) ==
    LET segs == SplitSlash(pattern)
    IN  {p \in Below(files, base) :
            /\ Len(p) = Len(base) + Len(segs)
            /\ \A i \in 1..Len(segs) : FnMatch(p[Len(base) + i], segs[i])}

\* Path.rglob(pattern) from base for a one-segment pattern: every path
\* below base whose last component matches.
RGlob(files, base, pattern) ==
    {p \in Below(files, base) : FnMatch(Last(p), pattern)}

\* str(path): the components joined by "/".
RECURSIVE StrPath(_)
StrPath(p) ==
    IF Len(p) = 0 THEN <<>>
    ELSE IF Len(p) = 1 THEN p[1]
    ELSE p[1] \o <<"/">> \o StrPath(Tail(p))

(***************************************************************************)
(* MANIFEST.in.  A line is the sequence of its whitespace-separated        *)
(* tokens, as line.strip().split() yields them.                            *)
(***************************************************************************)
ManifestCommands == {"include", "exclude", "recursive-include", "recursive-exclude",
                     "global-include", "global-exclude"}

EmptyCommands == [c \in ManifestCommands |-> <<>>]

\* One iteration of the loop of _parse_manifest, lines 141-153.
ParseLine(commands, parts) ==
    IF parts = <<>> \/ Head(Head(parts)) = "#"
    THEN commands
    ELSE IF Len(parts) < 2
    THEN commands
    ELSE IF Len(parts[1]) = 1 /\ parts[1][1] \in ManifestCommands
    THEN [commands EXCEPT ![parts[1][1]] = @ \o Tail(parts)]
    ELSE commands

\* pep517_hooks._parse_manifest
RECURSIVE ParseLines(_, _)
ParseLines(commands, lines) ==
    IF lines = <<>> THEN commands
    ELSE ParseLines(ParseLine(commands, Head(lines)), Tail(lines))

ParseManifest(lines) == ParseLines(EmptyCommands, lines)

\* The (dir_pattern, file_patterns) pairs the while loops of lines 210-223
\* and 238-250 visit: i = 0, 2, 4, ... while i + 1 < len.
RecursivePairs(args) ==
    {<<args[2 * k - 1], args[2 * k]>> : k \in 1..(Len(args) \div 2)}

\* Files under a directory matching dir_pattern whose name matches file_pattern
\* (file_patterns.split() of a token is the token itself).
RecursiveMatches(files, package_dir, pair) ==
    {f \in files :
        \E d \in Glob(files, package_dir, pair[1]) :
            /\ IsDir(files, d)
            /\ f \in Below(files, d)
            /\ FnMatch(Last(f), pair[2])}

\* included_files of _add_files_from_manifest, lines 200-229.
IncludedFiles(files, package_dir, commands) ==
    RGlob(files, package_dir, <<"*", ".py">>)
    \cup {f \in files : \E pat \in Range(commands["include"]) :
                f \in Glob(files, package_dir, pat)}
    \cup UNION {RecursiveMatches(files, package_dir, pair) :
                    pair \in RecursivePairs(commands["recursive-include"])}
    \cup {f \in files : \E pat \in Range(commands["global-include"]) :
                f \in RGlob(files, package_dir, Last(SplitSlash(pat)))}

\* excluded_files of _add_files_from_manifest, lines 232-256.
ExcludedFiles(files, package_dir, commands) ==
    {f \in files : \E pat \in Range(commands["exclude"]) :
            f \in Glob(files, package_dir, pat)}
    \cup UNION {RecursiveMatches(files, package_dir, pair) :
                    pair \in RecursivePairs(commands["recursive-exclude"])}
    \cup {f \in files : \E pat \in Range(commands["global-exclude"]) :
                f \in Below(files, package_dir) /\ FnMatch(Last(f), pat)}

\* The paths _add_files_from_manifest writes (lines 259-262), each under the
\* archive name str(file_path).
ManifestWrites(files, package_dir, commands) ==
    IncludedFiles(files, package_dir, commands)
        \ ExcludedFiles(files, package_dir, commands)

\* The package tree of the MANIFEST.in specification.
MfPackageDir == << <<"pkg">> >>
MfTree == { << <<"pkg">>, <<"a", ".py">> >>,
            << <<"pkg">>, <<"top", ".txt">> >>,
            << <<"pkg">>, <<"data">>, <<"keep", ".txt">> >>,
            << <<"pkg">>, <<"data">>, <<"keep", ".json">> >> }

MfPatternOrder == << <<"*", ".txt">>, <<"*", ".json">>, <<"*", ".py">> >>
MfDirTokens == { <<"data">> }

\* Pattern lists: up to MaxPatterns distinct patterns, in MfPatternOrder.
MfPatternLists ==
    {SelectSeq(MfPatternOrder, LAMBDA q : q \in S) :
        S \in {T \in SUBSET Range(MfPatternOrder) :
                    Cardinality(T) >= 1 /\ Cardinality(T) <= MaxPatterns}}

MfLinesSet ==
    {<< <<c>> >> \o ps : c \in {"include", "exclude", "global-include", "global-exclude"},
                         ps \in MfPatternLists}
    \cup {<< <<c>>, d >> \o ps : c \in {"recursive-include", "recursive-exclude"},
                               d \in MfDirTokens, ps \in MfPatternLists}
    \cup { <<>>, << <<"#", "note">>, <<"*", ".txt">> >>, << <<"prune">>, <<"data">> >> }

MfInit ==
    /\ mfLines \in SeqsOf(MfLinesSet, 0, MaxManifestLines)
    /\ mfFiles = MfTree
    /\ mfPc = "start"
    /\ mfCommands = EmptyCommands
    /\ mfWritten = {}

ParseManifestStep ==
    /\ mfPc = "start"
    /\ mfCommands' = ParseManifest(mfLines)
    /\ mfPc' = "parsed"
    /\ UNCHANGED <<mfLines, mfFiles, mfWritten>>

AddFilesFromManifestStep ==
    /\ mfPc = "parsed"
    /\ mfWritten' = {StrPath(f) : f \in ManifestWrites(mfFiles, MfPackageDir, mfCommands)}
    /\ mfPc' = "written"
    /\ UNCHANGED <<mfLines, mfFiles, mfCommands>>

MfIdle ==
    /\ mfLines = <<>> /\ mfFiles = {} /\ mfPc = "idle"
    /\ mfCommands = EmptyCommands /\ mfWritten = {}

(***************************************************************************)
(* The build hooks.  A project is the set of the paths of its files,       *)
(* relative to the working directory; an archive is the bag of the entries *)
(* written to it, so that a path written twice shows.                      *)
(***************************************************************************)
\* Path.parent and Path.suffix
Parent(p) == Slice(p, 1, Len(p) - 1)
Suffix(name) == IF Len(name) > 1 THEN Last(name) ELSE ""

\* sys.platform, sysconfig's EXT_SUFFIX (ABI tag, then the suffix proper) and
\* str(next(sys_tags())) of the two kinds of interpreter.
Platforms ==
    { [platform |-> "linux", ext |-> <<".abi", ".so">>,
       tag |-> <<"c","p","3","-","c","p","3","-","l","i","n","_","x">>],
      [platform |-> "win32", ext |-> <<".abi", ".pyd">>,
       tag |-> <<"c","p","3","-","c","p","3","-","w","i","n">>] }

\* [project] of pyproject.toml: the names tried, <<>> for a table without
\* name, and the version.
ProjectNames == { <<"p", "-", "k">>, <<"p", "k">>, <<>> }
ProjectVersion == <<"1", ".", "0">>

\* str(Path.cwd()) and the wheel_directory the frontend passes.
Cwd == <<"/", "proj">>
WheelDirectory == <<"d", "i", "s", "t">>

\* parse_nuwa_config, lines 88-100 and 129-135, for a [tool.nuwa] table that
\* sets only bundle-adjacent-dlls, allow-manifest-binaries and nimble-deps.
ConfigProjectName(name) == IF name = <<>> THEN <<"nuwa_project">> ELSE name
ConfigModuleName(name) == NormalizePackageName(ConfigProjectName(name))
ConfigLibName(name) == ConfigModuleName(name) \o <<"_lib">>
ConfigNimFlags(platform) ==
    IF platform = "win32" THEN <<"--passL:-static">> ELSE <<>>

\* _determine_output_path with output_location "auto".
DetermineOutputPath(name, ext, inplace) ==
    IF inplace
    THEN <<ConfigModuleName(name), ConfigLibName(name) \o ext>>
    ELSE <<ConfigLibName(name) \o ext>>

\* The source directory and entry point the discovery step hands on.
NimDir == <<"nim">>
EntryPoint(name) == <<"nim">> \o <<"/">> \o ConfigLibName(name) \o <<".nim">>

\* .nimble holds pkgs2 once dependencies have been installed into it.
NimbleDirs(attempts) == IF attempts # <<>> THEN {"pkgs2"} ELSE {}

\* _run_compilation, line 202
CompilationRaises_Never(returncode) == FALSE

CompilationRaises(returncode) == returncode # 0

CompilerExitCodes == {0, 1}

\* Lines of the compiler's stdout, by kind: ordinary text, a NUWA_STUB
\* marker with a JSON object, one whose JSON does not parse, one whose
\* object has no "name".
CompilerStdouts == { <<>>, <<"text">>, <<"text", "stub">>, <<"stub_bad", "stub">>,
                     <<"stub_bad">>, <<"stub_noname">> }

\* The entries read from stdout: the marker lines whose JSON parses.
StubEntries(stdout) == SelectSeq(stdout, LAMBDA l : l \in {"stub", "stub_noname"})
ParseCompilerOutput(stdout) == Len(StubEntries(stdout))

\* generate_pyi reads entry["name"] of every entry (line 74).
GeneratePyiRaises(entries) == \E i \in 1..Len(entries) : entries[i] = "stub_noname"

\* pyi_path of generate_pyi, line 125
GeneratedPyiPath(output_dir, module_name) == output_dir \o <<module_name \o <<".pyi">>>>

\* copy_mingw_runtime_dlls: the targets written, `found` being the names a
\* copy of which exists on PATH or in Nim's directories.
MingwDllNames == { <<"libgcc_s_seh-1", ".dll">>, <<"libstdc++-6", ".dll">>,
                   <<"libwinpthread-1", ".dll">> }
MingwFound == { {}, { <<"libgcc_s_seh-1", ".dll">> }, MingwDllNames }
CopyMingwRuntimeDlls(platform, target_dir, found) ==
    IF platform # "win32" THEN {}
    ELSE {target_dir \o <<n>> : n \in found}

\* exclude_dirs, exclude_patterns and the suffix list of _add_all_package_files
ExcludeDirs ==
    { <<"__pycache__">>, <<".pytest_cache">>, <<".mypy_cache">>, <<".ruff_cache">>,
      <<".hypothesis">>, <<".stestr">>, <<".coverage">>, <<"test_results">>,
      <<".tox">>, <<".eggs">>, <<"*", ".egg-info">>, <<"dist">>, <<"build">>,
      <<".git">>, <<".hg">>, <<".svn">>, <<".bzr">>, <<".vscode">>, <<".idea">>,
      <<"node_modules">>, <<"tests">>, <<"test">> }
ExcludePatterns ==
    { <<"*", ".pyc">>, <<"*", ".pyo">>, <<"*", ".pyd">>, <<"*", ".so">>,
      <<"*", ".dll">>, <<"*", ".dylib">>, <<"*", ".exe">>, <<"*", ".bat">>,
      <<".DS_Store">>, <<"*", ".swp">>, <<"*", ".swo">>, <<"*", "~">>,
      <<"*", ".log">>, <<".coverage">>, <<".pytest_cache">>, <<"coverage", ".xml">>,
      <<"*", ".cover">>, <<".tox", ".ini">>, <<" tox", ".ini">>, <<"MANIFEST">> }
BinarySuffixes == {".pyd", ".so", ".dll", ".dylib"}

\* The files _add_all_package_files writes.
AllPackageFiles(files, package_dir) ==
    {f \in RGlob(files, package_dir, <<"*">>) :
        /\ IsFile(files, f)
        /\ ~ \E i \in 1..Len(f) : f[i] \in ExcludeDirs
        /\ ~ \E pat \in ExcludePatterns : FnMatch(Last(f), pat)
        /\ Suffix(Last(f)) \notin BinarySuffixes}

\* The files _add_python_package_files writes, each under str(file_path).
PythonPackageFiles(files, manifest, name_normalized) ==
    LET package_dir == <<name_normalized>>
    IN  IF ~ IsDir(files, package_dir) THEN {}
        ELSE IF manifest.present
        THEN ManifestWrites(files, package_dir, ParseManifest(manifest.lines))
        ELSE AllPackageFiles(files, package_dir)

\* An archive entry: wf.write(src, arcname) or wf.writestr(arcname, text);
\* `by` names the step of the hook that wrote it.
FileEntry(arcname, src, by) ==
    [arcname |-> arcname, src |-> src, text |-> <<>>, by |-> by]
TextEntry(arcname, text, by) ==
    [arcname |-> arcname, src |-> <<>>, text |-> text, by |-> by]

\* arcname of _add_compiled_extension, line 363
ExtensionArcname(name_normalized, lib_name, ext) ==
    name_normalized \o <<"/">> \o lib_name \o ext

\* dlls_found of _add_compiled_extension, lines 369-370
AdjacentDlls(files, so_file) ==
    IF Suffix(Last(so_file)) = ".pyd"
    THEN Glob(files, Parent(so_file), <<"*", ".dll">>)
    ELSE {}

\* _add_compiled_extension
CompiledExtensionEntries(files, so_file, name_normalized, lib_name, ext) ==
    {FileEntry(ExtensionArcname(name_normalized, lib_name, ext), StrPath(so_file),
               "extension")}
    \cup {FileEntry(name_normalized \o <<"/">> \o Last(d), StrPath(d), "extension") :
            d \in AdjacentDlls(files, so_file)}

\* pyi_file of _add_type_stubs, line 396
TypeStubsPyiFile(so_file, lib_name) == Parent(so_file) \o <<lib_name \o <<".pyi">>>>

\* _add_type_stubs
TypeStubEntries(files, so_file, name_normalized, lib_name) ==
    IF IsFile(files, TypeStubsPyiFile(so_file, lib_name))
    THEN {FileEntry(name_normalized \o <<"/">> \o lib_name \o <<".pyi">>,
                    StrPath(TypeStubsPyiFile(so_file, lib_name)), "type_stubs")}
    ELSE {}

\* The WHEEL and METADATA texts, for a project that declares no dependencies.
WheelContent(tag) ==
    <<"Wheel-Version: 1.0\n", "Generator: nuwa\n", "Root-Is-Purelib: false\n", "Tag: ">>
    \o tag \o <<"\n">>
MetadataContent(name, version) ==
    <<"Metadata-Version: 2.1\n", "Name: ">> \o name \o <<"\n", "Version: ">>
    \o version \o <<"\n">>

\* _add_wheel_metadata
WheelMetadataEntries(name, version, wheel_tag, name_normalized) ==
    LET dist_info == name_normalized \o <<"-">> \o version \o <<".dist-info">>
    IN  { TextEntry(dist_info \o <<"/WHEEL">>, WheelContent(wheel_tag), "metadata"),
          TextEntry(dist_info \o <<"/METADATA">>, MetadataContent(name, version),
                    "metadata") }

\* write_wheel_metadata
WriteWheelMetadata(name, version, tag) ==
    LET name_normalized == NormalizePackageName(name)
        dist_info == name_normalized \o <<"-">> \o version \o <<".dist-info">>
    IN  { TextEntry(dist_info \o <<"/WHEEL">>, WheelContent(tag), "metadata"),
          TextEntry(dist_info \o <<"/METADATA">>, MetadataContent(name, version),
                    "metadata") }

UniversalTag == <<"p","y","3","-","n","o","n","e","-","a","n","y">>

\* wheel_name of build_editable, line 582, built from the name as declared.
EditableWheelName_Raw(name, version) ==
    name \o <<"-">> \o version \o <<"-">> \o UniversalTag \o WhlExt

\* wheel_name of build_editable, lines 579-582
EditableWheelName(name, version) ==
    NormalizePackageName(name) \o <<"-">> \o version \o <<"-">> \o UniversalTag \o WhlExt

\* The .pth entry of build_editable, line 587
PthEntry(name) == TextEntry(name \o <<".pth">>, Cwd, "pth")

\* pyi_file of _cleanup_build_artifacts, line 446, derived with
\* so_file.with_suffix(".pyi") instead.
CleanupPyiFile_WithSuffix(so_file, lib_name) ==
    Parent(so_file) \o <<Slice(Last(so_file), 1, Len(Last(so_file)) - 1) \o <<".pyi">>>>

\* pyi_file of _cleanup_build_artifacts, line 446
CleanupPyiFile(so_file, lib_name) == Parent(so_file) \o <<lib_name \o <<".pyi">>>>

\* The paths _cleanup_build_artifacts unlinks.
CleanupTargets(files, so_file, lib_name) ==
    ({so_file} \cap files)
    \cup ({CleanupPyiFile(so_file, lib_name)} \cap files)
    \cup (IF Suffix(Last(so_file)) = ".pyd"
          THEN Glob(files, Parent(so_file), <<"*", ".dll">>)
          ELSE {})

\* What the project directory holds before the hook runs: the package, and
\* any of an artifact and a stub left in it by an earlier in-place build and
\* a DLL in the working directory.
PackageTree(name) ==
    { <<ConfigModuleName(name), <<"__init__", ".py">>>>,
      <<ConfigModuleName(name), <<"cfg", ".json">>>>,
      <<ConfigModuleName(name), <<"__pycache__">>, <<"m", ".pyc">>>> }
Leftovers(name, ext) ==
    { DetermineOutputPath(name, ext, TRUE),
      <<ConfigModuleName(name), ConfigLibName(name) \o <<".pyi">>>>,
      << <<"helper", ".dll">> >> }

\* MANIFEST.in: absent, or one of two one-line files.
Manifests ==
    { [present |-> FALSE, lines |-> <<>>],
      [present |-> TRUE,
       lines |-> << << <<"global-include">>, <<"*", ".json">> >> >>],
      [present |-> TRUE,
       lines |-> << << <<"global-include">>, <<"*", ".so">>, <<"*", ".pyd">> >> >>] }

NimbleDeps == { <<>>, <<"nimpy", "cligen">> }

NotRun == [ran |-> FALSE, code |-> 0]

BdInit ==
    /\ bdHook \in {"wheel", "editable"}
    /\ bdName \in ProjectNames
    /\ bdPlatform \in Platforms
    /\ bdBundle \in BOOLEAN
    /\ bdAllowBinaries \in BOOLEAN
    /\ bdDeps \in NimbleDeps
    /\ bdManifest \in Manifests
    /\ \E left \in SUBSET Leftovers(bdName, bdPlatform.ext) :
            bdFs = PackageTree(bdName) \cup left
    /\ bdPc = "check_nim"
    /\ bdReturncode = NotRun
    /\ bdStdout = <<>>
    /\ bdCmd = <<>>
    /\ bdSoFile = <<>>
    /\ bdStubWritten = FALSE
    /\ bdAttempts = <<>>
    /\ bdCopied = {}
    /\ bdDeleted = {}
    /\ bdWheelDir = {}
    /\ bdArchive = EmptyBag
    /\ bdArchiveState = "none"
    /\ bdPrinted = <<>>
    /\ bdError = "none"
    /\ bdMessage = ""
    /\ bdNim = "unknown"
    /\ bdResult = <<>>

\* An exception leaves the hook.
Raise(kind, message) == bdError' = kind /\ bdMessage' = message /\ bdPc' = "failed"

NoException == [kind |-> "none", message |-> ""]

\* check_nim_installed without the shutil.which test: running a binary that
\* is not there raises FileNotFoundError, which the except clause for
\* CalledProcessError does not catch.
CheckNimInstalledRaises_NoWhich(nim) ==
    CASE nim = "missing" -> [kind |-> "FileNotFoundError", message |-> "No such file"]
      [] nim = "broken" -> [kind |-> "RuntimeError", message |-> "Nim compiler not working"]
      [] OTHER -> NoException

\* utils.check_nim_installed: nim absent from PATH (lines 67-70), or
\* `nim --version` failing (lines 73-78); the first message ends with the
\* installation hint.
CheckNimInstalledRaises(nim) ==
    CASE nim = "missing" -> [kind |-> "RuntimeError",
                             message |-> "Nim compiler not found in PATH. Install Nim from"]
      [] nim = "broken" -> [kind |-> "RuntimeError", message |-> "Nim compiler not working"]
      [] OTHER -> NoException

\* _run_compilation, lines 222-226: subprocess.run raising FileNotFoundError.
CompilerNotFound ==
    [kind |-> "RuntimeError", message |-> "Nim compiler not found at. Install Nim from"]

CheckNimInstalled ==
    /\ bdPc = "check_nim"
    /\ \E nim \in {"ok", "missing", "broken"} :
          /\ bdNim' = nim
          /\ LET e == CheckNimInstalledRaises(nim)
             IN  IF e = NoException
                 THEN bdPc' = "load_config" /\ UNCHANGED bdFailure
                 ELSE Raise(e.kind, e.message)
    /\ UNCHANGED <<bdInputs, bdCompileVars, bdDiskVars, bdArchiveVars, bdPrinted,
                   bdResult>>

\* _compile_nim, lines 271-273: parse_nuwa_config raises ValueError on a
\* [tool.nuwa] table that fails validation.
LoadConfig ==
    /\ bdPc = "load_config"
    /\ \E valid \in BOOLEAN :
          IF valid
          THEN bdPc' = "install_deps" /\ UNCHANGED bdFailure
          ELSE Raise("ValueError", "invalid configuration")
    /\ UNCHANGED <<bdInputs, bdCompileVars, bdDiskVars, bdArchiveVars, bdPrinted,
                   bdNim, bdResult>>

\* How one `nimble install -y <dep>` ends: exit status 0; a non-zero status
\* with "already installed" in its output; a non-zero status without.
InstallOutcomes == {"installed", "already installed", "failed"}

\* local_nimble_path of _install_dependencies, line 148
LocalNimblePath == Cwd \o <<"/", ".nimble">>

\* install_nimble_dependencies, lines 215-226: the installs that raise.
FailingInstalls(outcomes) == {i \in 1..Len(outcomes) : outcomes[i] = "failed"}

\* The loop of lines 210-229 of utils.py going through the whole list before it raises.
InstallsRun_All(deps, failing) == Len(deps)

\* The loop of lines 210-229: the raise of line 225 leaves it, so the
\* failing install is the last one run.
InstallsRun(deps, failing) == IF failing = {} THEN Len(deps) ELSE Min(failing)

\* utils.install_nimble_dependencies(deps, local_dir): the subprocesses it
\* runs, each with its NIMBLE_DIR and its outcome, and the exception it
\* raises.  outcomes[i] is how the install of deps[i] would end.
InstallNimbleDependencies(deps, local_dir, nimble, outcomes) ==
    IF deps = <<>> THEN [runs |-> <<>>, error |-> NoException]
    ELSE IF ~ nimble
    THEN [runs |-> <<>>,
          error |-> [kind |-> "RuntimeError",
                     message |-> "nimble package manager not found in PATH"]]
    ELSE LET failing == FailingInstalls(outcomes)
             n == InstallsRun(deps, failing)
         IN  [runs |-> [i \in 1..n |->
                          [cmd |-> <<"nimble", "install", "-y", deps[i]>>,
                           NIMBLE_DIR |-> local_dir,
                           outcome |-> outcomes[i]]],
              error |-> IF failing = {} THEN NoException
                        ELSE [kind |-> "RuntimeError",
                              message |-> "Failed to install nimble dependency"]]

\* _install_dependencies: install_nimble_dependencies is called only for a
\* non-empty list (lines 150-152).
InstallDependencies ==
    /\ bdPc = "install_deps"
    /\ \E nimble \in BOOLEAN, outcomes \in [1..Len(bdDeps) -> InstallOutcomes] :
          LET r == InstallNimbleDependencies(bdDeps, LocalNimblePath, nimble, outcomes)
          IN  /\ bdAttempts' = r.runs
              /\ IF r.error = NoException
                 THEN bdPc' = "discover" /\ UNCHANGED bdFailure
                 ELSE Raise(r.error.kind, r.error.message)
    /\ UNCHANGED <<bdInputs, bdReturncode, bdStdout, bdCmd, bdSoFile, bdStubWritten,
                   bdDiskVars, bdArchiveVars, bdPrinted, bdNim, bdResult>>

\* discover_nim_sources and validate_nim_project: the source directory or
\* the entry file may be absent.
DiscoverSources ==
    /\ bdPc = "discover"
    /\ \E found \in BOOLEAN :
          IF found
          THEN bdPc' = "compile" /\ UNCHANGED bdFailure
          ELSE Raise("FileNotFoundError", "sources not found")
    /\ UNCHANGED <<bdInputs, bdCompileVars, bdDiskVars, bdArchiveVars, bdPrinted,
                   bdNim, bdResult>>

\* _compile_nim, lines 284-301: the output path, the command, the compiler
\* run and the report of its outcome.  A compiler that cannot be started
\* raises RuntimeError; one that exits with 0 has written the artifact.
RunCompilation ==
    /\ bdPc = "compile"
    /\ LET out_path == DetermineOutputPath(bdName, bdPlatform.ext, bdHook = "editable")
           cmd == BuildNimCommand(EntryPoint(bdName), StrPath(out_path),
                                  IF bdHook = "wheel" THEN "release" ELSE "debug",
                                  ConfigNimFlags(bdPlatform.platform), NimDir,
                                  ".nimble", NimbleDirs(bdAttempts))
       IN  /\ bdCmd' = cmd
           /\ \/ /\ Raise(CompilerNotFound.kind, CompilerNotFound.message)
                 /\ bdNim' = "missing"
                 /\ bdPrinted' = bdPrinted \o <<"compiling">>
                 /\ UNCHANGED <<bdReturncode, bdStdout, bdSoFile, bdFs>>
              \/ \E returncode \in CompilerExitCodes :
                    /\ bdReturncode' = [ran |-> TRUE, code |-> returncode]
                    /\ UNCHANGED bdNim
                    /\ IF CompilationRaises(returncode)
                       THEN /\ bdPrinted' = bdPrinted \o <<"compiling", "compile_error">>
                            /\ Raise("CalledProcessError", "non-zero exit status")
                            /\ UNCHANGED <<bdStdout, bdSoFile, bdFs>>
                       ELSE /\ bdPrinted' = bdPrinted \o <<"compiling", "compile_success">>
                            /\ bdStdout' \in CompilerStdouts
                            /\ bdSoFile' = out_path
                            /\ bdFs' = bdFs \cup {out_path}
                            /\ bdPc' = "stubs"
                            /\ UNCHANGED bdFailure
    /\ UNCHANGED <<bdInputs, bdStubWritten, bdAttempts, bdCopied, bdDeleted,
                   bdArchiveVars, bdResult>>

\* _generate_type_stubs, then the return of _compile_nim to the hook.
GenerateTypeStubs ==
    /\ bdPc = "stubs"
    /\ LET entries == StubEntries(bdStdout)
           next == IF bdHook = "wheel" THEN "mingw" ELSE "metadata"
       IN  IF ParseCompilerOutput(bdStdout) > 0
           THEN IF GeneratePyiRaises(entries)
                THEN Raise("KeyError", "name") /\ UNCHANGED <<bdFs, bdStubWritten>>
                ELSE /\ bdFs' = bdFs \cup {GeneratedPyiPath(Parent(bdSoFile),
                                                             ConfigLibName(bdName))}
                     /\ bdStubWritten' = TRUE
                     /\ bdPc' = next
                     /\ UNCHANGED bdFailure
           ELSE bdPc' = next /\ UNCHANGED <<bdFs, bdStubWritten, bdFailure>>
    /\ UNCHANGED <<bdInputs, bdReturncode, bdStdout, bdCmd, bdSoFile, bdAttempts,
                   bdCopied, bdDeleted, bdArchiveVars, bdPrinted, bdNim, bdResult>>

\* build_wheel, lines 491-492
CopyMingwDlls ==
    /\ bdPc = "mingw"
    /\ IF Suffix(Last(bdSoFile)) = ".pyd"
       THEN \E found \in MingwFound :
               LET copied == CopyMingwRuntimeDlls(bdPlatform.platform,
                                                  Parent(bdSoFile), found)
               IN  bdCopied' = copied /\ bdFs' = bdFs \cup copied
       ELSE UNCHANGED <<bdCopied, bdFs>>
    /\ bdPc' = "metadata"
    /\ UNCHANGED <<bdInputs, bdCompileVars, bdDeleted, bdArchiveVars, bdPrinted,
                   bdFailure, bdNim, bdResult>>

\* _extract_metadata: KeyError for a [project] table without name.
ExtractMetadata ==
    /\ bdPc = "metadata"
    /\ IF bdName = <<>>
       THEN Raise("KeyError", "name")
       ELSE bdPc' = "open" /\ UNCHANGED bdFailure
    /\ UNCHANGED <<bdInputs, bdCompileVars, bdDiskVars, bdArchiveVars, bdPrinted,
                   bdNim, bdResult>>

\* wheel_name of the hook: build_wheel line 504, build_editable line 582
HookWheelName ==
    IF bdHook = "wheel"
    THEN GetWheelTags(bdName, ProjectVersion, bdPlatform.tag)
    ELSE EditableWheelName(bdName, ProjectVersion)

\* wheel_tag of build_wheel, line 505
HookWheelTag == SplitHyphen2Third(Slice(HookWheelName, 1, Len(HookWheelName) - 4))

\* WheelFile(wheel_path, "w") creates the archive in wheel_directory.
OpenWheel ==
    /\ bdPc = "open"
    /\ bdWheelDir' = bdWheelDir \cup {HookWheelName}
    /\ bdArchiveState' = "open"
    /\ bdPc' = IF bdHook = "wheel" THEN "package_files" ELSE "pth"
    /\ UNCHANGED <<bdInputs, bdCompileVars, bdDiskVars, bdArchive, bdPrinted,
                   bdFailure, bdNim, bdResult>>

\* One step of the `with` block: the entries are written, nothing else moves.
WriteEntries(pc, entries, next) ==
    /\ bdPc = pc
    /\ bdArchive' = bdArchive (+) SetToBag(entries)
    /\ bdPc' = next
    /\ UNCHANGED <<bdInputs, bdCompileVars, bdDiskVars, bdWheelDir, bdArchiveState,
                   bdPrinted, bdFailure, bdNim, bdResult>>

\* build_wheel, line 511
AddPythonPackageFiles ==
    WriteEntries("package_files",
                 {FileEntry(StrPath(f), StrPath(f), "scan") :
                     f \in PythonPackageFiles(bdFs, bdManifest,
                                              NormalizePackageName(bdName))},
                 "extension")

\* build_wheel, line 514
AddCompiledExtension ==
    WriteEntries("extension",
                 CompiledExtensionEntries(bdFs, bdSoFile, NormalizePackageName(bdName),
                                          ConfigLibName(bdName), bdPlatform.ext),
                 "type_stubs")

\* build_wheel, line 517
AddTypeStubs ==
    WriteEntries("type_stubs",
                 TypeStubEntries(bdFs, bdSoFile, NormalizePackageName(bdName),
                                 ConfigLibName(bdName)),
                 "wheel_metadata")

\* build_wheel, line 520
AddWheelMetadata ==
    WriteEntries("wheel_metadata",
                 WheelMetadataEntries(bdName, ProjectVersion, HookWheelTag,
                                      NormalizePackageName(bdName)),
                 "close")

\* build_editable, line 587
WritePth == WriteEntries("pth", {PthEntry(bdName)}, "editable_metadata")

\* build_editable, line 590
WriteEditableMetadata ==
    WriteEntries("editable_metadata",
                 WriteWheelMetadata(bdName, ProjectVersion, UniversalTag), "close")

\* The end of the `with` block: the archive is finished and closed.
CloseWheel ==
    /\ bdPc = "close"
    /\ bdArchiveState' = "closed"
    /\ bdPc' = IF bdHook = "wheel" THEN "cleanup" ELSE "return"
    /\ UNCHANGED <<bdInputs, bdCompileVars, bdDiskVars, bdWheelDir, bdArchive,
                   bdPrinted, bdFailure, bdNim, bdResult>>

\* build_wheel, line 523
CleanupBuildArtifacts ==
    /\ bdPc = "cleanup"
    /\ LET targets == CleanupTargets(bdFs, bdSoFile, ConfigLibName(bdName))
       IN  bdFs' = bdFs \ targets /\ bdDeleted' = bdDeleted \cup targets
    /\ bdPc' = "return"
    /\ UNCHANGED <<bdInputs, bdCompileVars, bdCopied, bdArchiveVars, bdPrinted,
                   bdFailure, bdNim, bdResult>>

\* return wheel_path.name (build_wheel) / return wheel_name (build_editable)
ReturnWheelName ==
    /\ bdPc = "return"
    /\ bdResult' = IF bdHook = "wheel"
                   THEN PathName(JoinPath(WheelDirectory, HookWheelName))
                   ELSE HookWheelName
    /\ bdPc' = "done"
    /\ UNCHANGED <<bdInputs, bdCompileVars, bdDiskVars, bdArchiveVars, bdPrinted,
                   bdFailure, bdNim>>

BdIdle ==
    /\ bdHook = "idle" /\ bdName = <<>> /\ bdPlatform = [platform |-> "", ext |-> <<>>, tag |-> <<>>]
    /\ bdBundle = FALSE /\ bdAllowBinaries = FALSE /\ bdDeps = <<>>
    /\ bdManifest = [present |-> FALSE, lines |-> <<>>]
    /\ bdFs = {} /\ bdPc = "idle" /\ bdReturncode = NotRun /\ bdStdout = <<>>
    /\ bdCmd = <<>> /\ bdSoFile = <<>> /\ bdStubWritten = FALSE /\ bdAttempts = <<>>
    /\ bdCopied = {} /\ bdDeleted = {} /\ bdWheelDir = {} /\ bdArchive = EmptyBag
    /\ bdArchiveState = "none" /\ bdPrinted = <<>> /\ bdError = "none"
    /\ bdMessage = "" /\ bdNim = "idle" /\ bdResult = <<>>

(***************************************************************************)
(* Configuration resolution.  pyproject.toml is a record [exists, name,    *)
(* nuwa]: whether the file is there, [project] name, and the keys of       *)
(* [tool.nuwa] that parse_nuwa_config reads, each [set, val] with set      *)
(* FALSE for a key the table does not have.  Names are sequences of        *)
(* characters, so that the identifier test, the hyphen replacement and     *)
(* the derived names are computed.                                         *)
(***************************************************************************)
MaxToolKeys == 2

LowerLetters == {"a", "b", "c", "d", "e", "f", "g", "h", "i", "j", "k", "l", "m",
                 "n", "o", "p", "q", "r", "s", "t", "u", "v", "w", "x", "y", "z"}
DigitChars == {"0", "1", "2", "3", "4", "5", "6", "7", "8", "9"}
Whitespace == {" ", "\t", "\n"}

\* str.isidentifier() on the characters of the model: not empty, a letter or
\* an underscore first, then letters, digits and underscores.
IsIdentifier(s) ==
    /\ s # <<>>
    /\ s[1] \in LowerLetters \cup {"_"}
    /\ \A i \in 1..Len(s) : s[i] \in LowerLetters \cup DigitChars \cup {"_"}

\* str.strip(): leading and trailing whitespace removed.
Strip(s) ==
    LET keep == {i \in 1..Len(s) : s[i] \notin Whitespace}
    IN  IF keep = {} THEN <<>> ELSE SubSeq(s, Min(keep), Max(keep))

DefaultProjectName == <<"n", "u", "w", "a", "_", "p", "r", "o", "j", "e", "c", "t">>
DefaultNimSourceDir == <<"n", "i", "m">>
LibSuffix == <<"_", "l", "i", "b">>
NimSuffix == <<".", "n", "i", "m">>
StaticFlag == "--passL:-static"
VccFlag == "--cc:vcc"

NoProfile == <<>>
FastProfile == <<"f", "a", "s", "t">>
ProfileArgs == {NoProfile, FastProfile, <<"o", "f", "f">>}

ToolKeys == {"module_name", "lib_name", "entry_point", "nim_source", "nim_flags",
             "windows_static_linking", "profile_flags"}

ResolveFlagValues == {StaticFlag, VccFlag, "--opt:speed"}

OptList(D, k, vals) == IF k \in D THEN {[set |-> TRUE, val |-> v] : v \in vals}
                       ELSE {UnsetFlags}

\* [tool.nuwa] tables with the keys D present.  profile_flags is nim-flags of
\* [tool.nuwa.profiles.fast], unset when the table defines no such profile.
ToolsWith(D) ==
    [module_name : OptStr(D, "module_name", {<<"m", "o", "d">>, <<"1", "m">>}),
     lib_name : OptStr(D, "lib_name", {<<"l", "b">>}),
     entry_point : OptStr(D, "entry_point", {<<"e">> \o NimSuffix}),
     nim_source : OptStr(D, "nim_source", {<<"s", "r", "c">>, <<" ">>}),
     nim_flags : OptList(D, "nim_flags", SeqsOf(ResolveFlagValues, 1, 1)),
     windows_static_linking : OptBool(D, "windows_static_linking"),
     profile_flags : OptList(D, "profile_flags", SeqsOf(ResolveFlagValues, 0, 1))]

EmptyTool == CHOOSE t \in ToolsWith({}) : TRUE

Tools ==
    UNION {ToolsWith(D) : D \in {E \in SUBSET ToolKeys : Cardinality(E) <= MaxToolKeys}}

NoFile == [exists |-> FALSE, name |-> UnsetStr, nuwa |-> EmptyTool]

PyprojectFiles ==
    {NoFile} \cup
    [exists : {TRUE},
     name : {UnsetStr, [set |-> TRUE, val |-> <<"m", "y", "-", "p">>]},
     nuwa : Tools]

\* parse_nuwa_config lines 90-96
ProjectNameOf(doc) ==
    IF doc.exists /\ doc.name.set THEN doc.name.val ELSE DefaultProjectName

ToolOf(doc) == IF doc.exists THEN doc.nuwa ELSE EmptyTool

\* line 99: nuwa.get("module-name") or normalize_package_name(project_name)
ModuleNameOf(nuwa, project_name) ==
    IF TruthyStr(nuwa.module_name) THEN nuwa.module_name.val
    ELSE NormalizePackageName(project_name)

\* line 100 with the suffix forgotten.
LibNameOf_NoSuffix(nuwa, module_name) ==
    IF TruthyStr(nuwa.lib_name) THEN nuwa.lib_name.val ELSE module_name

\* line 100: nuwa.get("lib-name") or f"{module_name}_lib"
LibNameOf(nuwa, module_name) ==
    IF TruthyStr(nuwa.lib_name) THEN nuwa.lib_name.val ELSE module_name \o LibSuffix

\* line 106: nuwa.get("entry-point", f"{lib_name}.nim")
EntryPointOf(nuwa, lib_name) ==
    IF nuwa.entry_point.set THEN nuwa.entry_point.val ELSE lib_name \o NimSuffix

\* lines 102-114: the dictionary before the profile is applied.  The keys
\* the model does not vary keep their defaults.
ConfigWithDefaults(doc) ==
    LET nuwa == ToolOf(doc)
        module_name == ModuleNameOf(nuwa, ProjectNameOf(doc))
        lib_name == LibNameOf(nuwa, module_name)
    IN  [nim_source |-> IF nuwa.nim_source.set THEN nuwa.nim_source.val
                        ELSE DefaultNimSourceDir,
         module_name |-> module_name,
         lib_name |-> lib_name,
         entry_point |-> EntryPointOf(nuwa, lib_name),
         output_location |-> <<"auto">>,
         nim_flags |-> IF nuwa.nim_flags.set THEN nuwa.nim_flags.val ELSE <<>>,
         bindings |-> <<"nimpy">>,
         nimble_deps |-> <<>>,
         allow_manifest_binaries |-> FALSE,
         windows_static_linking |-> IF nuwa.windows_static_linking.set
                                    THEN nuwa.windows_static_linking.val ELSE TRUE,
         bundle_adjacent_dlls |-> TRUE]

\* lines 117-121: `if profile:` and the profile is not in the table.
UnknownProfile(doc, profile) ==
    profile # NoProfile /\ ~ (profile = FastProfile /\ ToolOf(doc).profile_flags.set)

\* lines 122-125: config["nim_flags"].extend(profile_flags)
WithProfile(config, doc, profile) ==
    IF profile = NoProfile THEN config
    ELSE [config EXCEPT !.nim_flags = @ \o ToolOf(doc).profile_flags.val]

\* _validate_config_fields, lines 61-69 (the four required keys are always
\* in the dictionary parse_nuwa_config builds).
ConfigFieldsValid(config) ==
    /\ IsIdentifier(config.module_name)
    /\ Strip(config.nim_source) # <<>>

\* lines 129-135
WithStaticLinking(config, platform) ==
    IF /\ platform = "win32"
       /\ config.windows_static_linking
       /\ StaticFlag \notin Range(config.nim_flags)
       /\ VccFlag \notin Range(config.nim_flags)
    THEN [config EXCEPT !.nim_flags = Append(@, StaticFlag)]
    ELSE config

NoConfig == [nim_flags |-> <<>>]
NotCalled == [error |-> "not called", config |-> NoConfig]

\* config.parse_nuwa_config: the exception it raises, or the dictionary it
\* returns.
ParseNuwaConfig(doc, profile, platform) ==
    IF UnknownProfile(doc, profile)
    THEN [error |-> "ValueError", config |-> NoConfig]
    ELSE LET config == WithProfile(ConfigWithDefaults(doc), doc, profile)
         IN  IF ~ ConfigFieldsValid(config)
             THEN [error |-> "ValueError", config |-> NoConfig]
             ELSE [error |-> "none", config |-> WithStaticLinking(config, platform)]

\* The document a later call would work on if the tables of this call were
\* kept and the flag list of the result were the list of the table.
NextCallDocument_SharedTables(file, doc, profile, platform) ==
    LET r == ParseNuwaConfig(doc, profile, platform)
    IN  IF r.error = "none" /\ doc.exists
        THEN [doc EXCEPT !.nuwa.nim_flags = [set |-> TRUE, val |-> r.config.nim_flags]]
        ELSE doc

\* The document the next call works on: load_pyproject_toml (lines 39-42)
\* reads the file again on every call, and the flag list of the result is a
\* copy (line 107), so nothing a call does reaches the next one.
NextCallDocument(file, doc, profile, platform) == file

\* The caller's config_overrides with the keys D present.
ResolveOverridesWith(D) ==
    [module_name : OptStr(D, "module_name", {<<"o", "k">>, <<"a", "-", "b">>}),
     nim_source : OptStr(D, "nim_source", {<<"l", "i", "b">>, <<" ">>}),
     entry_point : {UnsetStr},
     allow_manifest_binaries : {UnsetBool},
     windows_static_linking : OptBool(D, "windows_static_linking"),
     bundle_adjacent_dlls : {UnsetBool},
     output_location : {UnsetStr},
     output_dir : {UnsetStr},
     nim_flags : OptList(D, "nim_flags", SeqsOf(ResolveFlagValues, 1, 1))]

ResolveOverrideKeys == {"module_name", "nim_source", "windows_static_linking", "nim_flags"}

ResolveOverrides ==
    UNION {ResolveOverridesWith(D) :
             D \in {E \in SUBSET ResolveOverrideKeys : Cardinality(E) <= MaxOverrideKeys}}

EmptyOverrides == CHOOSE o \in ResolveOverridesWith({}) : TRUE

rsInputs == <<rsMode, rsFile, rsProfile, rsPlatform, rsOverrides>>

\* _compile_nim calls parse_nuwa_config() without a profile (line 271); the
\* function itself is also called directly with one.
RsInit ==
    /\ rsMode \in {"build", "parse"}
    /\ rsFile \in PyprojectFiles
    /\ rsPlatform \in {"linux", "win32"}
    /\ IF rsMode = "build"
       THEN rsProfile = NoProfile /\ rsOverrides \in ResolveOverrides
       ELSE rsProfile \in ProfileArgs /\ rsOverrides = EmptyOverrides
    /\ rsPc = "parse"
    /\ rsDoc = rsFile
    /\ rsFirst = NotCalled
    /\ rsSecond = NotCalled
    /\ rsConfig = NoConfig
    /\ rsCmd = <<>>
    /\ rsError = "none"

\* config = parse_nuwa_config()
ParseNuwaConfigStep ==
    /\ rsPc = "parse"
    /\ LET r == ParseNuwaConfig(rsDoc, rsProfile, rsPlatform)
       IN  /\ rsFirst' = r
           /\ rsConfig' = r.config
           /\ rsError' = r.error
           /\ rsPc' = IF r.error # "none" /\ rsMode = "build" THEN "failed" ELSE "parsed"
    /\ rsDoc' = NextCallDocument(rsFile, rsDoc, rsProfile, rsPlatform)
    /\ UNCHANGED <<rsInputs, rsSecond, rsCmd>>

\* backend._compile_nim lines 272-273:
\* if config_overrides: config = merge_cli_args(config, config_overrides)
MergeOverridesStep ==
    /\ rsMode = "build" /\ rsPc = "parsed"
    /\ rsConfig' = IF rsOverrides # EmptyOverrides
                   THEN MergeCliArgs(rsConfig, rsOverrides)
                   ELSE rsConfig
    /\ rsPc' = "merged"
    /\ UNCHANGED <<rsInputs, rsDoc, rsFirst, rsSecond, rsCmd, rsError>>

\* backend._compile_nim lines 279-295: discovery of the sources named by the
\* configuration, then the compiler command built from its flags.
CompileStep ==
    /\ rsMode = "build" /\ rsPc = "merged"
    /\ \E found \in BOOLEAN, build_type \in BuildTypes :
          IF found
          THEN /\ rsCmd' = BuildNimCommand(rsConfig.entry_point, <<"out">>, build_type,
                                           rsConfig.nim_flags, rsConfig.nim_source,
                                           NoPath, {})
               /\ rsPc' = "compiled"
               /\ UNCHANGED rsError
          ELSE /\ rsError' = "FileNotFoundError"
               /\ rsPc' = "failed"
               /\ UNCHANGED rsCmd
    /\ UNCHANGED <<rsInputs, rsDoc, rsFirst, rsSecond, rsConfig>>

\* A second call of parse_nuwa_config with the same arguments.
ParseAgainStep ==
    /\ rsMode = "parse" /\ rsPc = "parsed"
    /\ rsSecond' = ParseNuwaConfig(rsDoc, rsProfile, rsPlatform)
    /\ rsDoc' = NextCallDocument(rsFile, rsDoc, rsProfile, rsPlatform)
    /\ rsPc' = "reparsed"
    /\ UNCHANGED <<rsInputs, rsFirst, rsConfig, rsCmd, rsError>>

RsIdle ==
    /\ rsMode = "idle" /\ rsFile = NoFile /\ rsProfile = NoProfile
    /\ rsPlatform = "" /\ rsOverrides = EmptyOverrides /\ rsPc = "idle"
    /\ rsDoc = NoFile /\ rsFirst = NotCalled /\ rsSecond = NotCalled
    /\ rsConfig = NoConfig /\ rsCmd = <<>> /\ rsError = "none"

(***************************************************************************)
(* Compiler diagnostics.  The text of stderr is a sequence of symbols:     *)
(* the characters the pattern of parse_nim_error looks at ("(", ")", ",",  *)
(* ":", digits, blanks, "\n"), and chunks for the words between them.      *)
(***************************************************************************)
MaxStderrLines == 2

Levels == {"Error", "Warning", "Hint"}

\* str.split("\n")
RECURSIVE SplitLines(_)
SplitLines(text) ==
    IF Positions(text, "\n") = {} THEN <<text>>
    ELSE LET p == Min(Positions(text, "\n"))
         IN  <<Slice(text, 1, p - 1)>> \o SplitLines(Slice(text, p + 1, Len(text)))

\* "\n".join(items)
RECURSIVE JoinLines(_)
JoinLines(items) ==
    IF items = <<>> THEN <<>>
    ELSE IF Len(items) = 1 THEN items[1]
    ELSE items[1] \o <<"\n">> \o JoinLines(Tail(items))

\* The last index of the run of symbols of class C that starts at i
\* (i - 1 when s[i] is not in C): what a greedy \d+ or \s* consumes.
RunEnd(s, i, C) ==
    LET stops == {j \in i..Len(s) : s[j] \notin C}
    IN  IF stops = {} THEN Len(s) ELSE Min(stops) - 1

DigitValue(c) ==
    CASE c = "0" -> 0 [] c = "1" -> 1 [] c = "2" -> 2 [] c = "3" -> 3
      [] c = "4" -> 4 [] c = "5" -> 5 [] c = "6" -> 6 [] c = "7" -> 7
      [] c = "8" -> 8 [] c = "9" -> 9

DigitSymbols == <<"0", "1", "2", "3", "4", "5", "6", "7", "8", "9">>

\* int(digits)
ToInt(ds) ==
    LET f[i \in 0..Len(ds)] == IF i = 0 THEN 0 ELSE f[i - 1] * 10 + DigitValue(ds[i])
    IN  f[Len(ds)]

\* str(n) for n >= 0
RECURSIVE ToDigits(_)
ToDigits(n) ==
    IF n < 10 THEN <<DigitSymbols[n + 1]>>
    ELSE ToDigits(n \div 10) \o <<DigitSymbols[(n % 10) + 1]>>

NoMatch == [found |-> FALSE, file |-> <<>>, line |-> 0, col |-> 0, level |-> "",
            message |-> <<>>]

\* The pattern of line 49 tried with group 1 ending just before position p:
\* \( (\d+) \s* , \s* (\d+) \s* \) \s+ (Error|Warning|Hint) : \s+ (.+) $
MatchAt(s, p) ==
    LET d1e == RunEnd(s, p + 1, DigitChars)
        w1e == RunEnd(s, d1e + 1, Whitespace)
        w2e == RunEnd(s, w1e + 2, Whitespace)
        d2e == RunEnd(s, w2e + 1, DigitChars)
        w3e == RunEnd(s, d2e + 1, Whitespace)
        w4e == RunEnd(s, w3e + 2, Whitespace)
        w5e == RunEnd(s, w4e + 3, Whitespace)
    IN  IF /\ p >= 2 /\ p <= Len(s) /\ s[p] = "("
           /\ d1e >= p + 1
           /\ w1e + 1 <= Len(s) /\ s[w1e + 1] = ","
           /\ d2e >= w2e + 1
           /\ w3e + 1 <= Len(s) /\ s[w3e + 1] = ")"
           /\ w4e >= w3e + 2
           /\ w4e + 2 <= Len(s) /\ s[w4e + 1] \in Levels /\ s[w4e + 2] = ":"
           /\ w5e >= w4e + 3
           /\ w5e < Len(s)
        THEN [found |-> TRUE,
              file |-> Slice(s, 1, p - 1),
              line |-> ToInt(Slice(s, p + 1, d1e)),
              col |-> ToInt(Slice(s, w2e + 1, d2e)),
              level |-> s[w4e + 1],
              message |-> Strip(Slice(s, w5e + 1, Len(s)))]
        ELSE NoMatch

\* error_pattern.match(line): group 1 is greedy, so of the positions at
\* which the rest of the pattern matches the last one is taken.
MatchLine(s) ==
    LET ps == {p \in 1..Len(s) : MatchAt(s, p).found}
    IN  IF ps = {} THEN NoMatch ELSE MatchAt(s, Max(ps))

\* The loop of lines 51-60 returning at the last matching line.
ReturnedLine_Last(matching) == Max(matching)

\* The loop of lines 51-60 returns at the first matching line.
ReturnedLine(matching) == Min(matching)

\* errors.parse_nim_error; NoMatch stands for None.
ParseNimError(stderr) ==
    LET lines == SplitLines(Strip(stderr))
        matching == {i \in 1..Len(lines) : MatchLine(Strip(lines[i])).found}
    IN  IF matching = {} THEN NoMatch
        ELSE MatchLine(Strip(lines[ReturnedLine(matching)]))

\* f"{line_no:4d}"
Pad4(ds) == [i \in 1..Max({0, 4 - Len(ds)}) |-> " "] \o ds

\* f.readlines(): line k of a source file is its text, here the chunk "code"
\* and the digits of k, trailing blanks on the odd lines, and the newline.
FileLine(source, k) ==
    <<"code">> \o ToDigits(k) \o (IF k % 2 = 1 THEN <<" ">> ELSE <<>>) \o <<"\n">>

\* line.rstrip()
RStrip(s) ==
    LET keep == {i \in 1..Len(s) : s[i] \notin Whitespace}
    IN  IF keep = {} THEN <<>> ELSE SubSeq(s, 1, Max(keep))

GetErrorContext_Unclamped(source, line_num) ==
    IF ~ source.readable THEN <<>>
    ELSE LET start == Max({0, line_num - 3})
             end == line_num + 2
             error_index == line_num - start - 1
         IN  [i \in 1..Max({0, end - start}) |->
                Pad4(ToDigits(start + i))
                \o <<IF i - 1 = error_index THEN " > " ELSE "   ">>
                \o RStrip(FileLine(source, start + i))]

\* errors.get_error_context with context_lines = 2: the numbered lines
\* around line_num, [] when the file cannot be read.
GetErrorContext(source, line_num) ==
    IF ~ source.readable THEN <<>>
    ELSE LET start == Max({0, line_num - 3})
             end == Min({source.len, line_num + 2})
             error_index == line_num - start - 1
         IN  [i \in 1..Max({0, end - start}) |->
                Pad4(ToDigits(start + i))
                \o <<IF i - 1 = error_index THEN " > " ELSE "   ">>
                \o RStrip(FileLine(source, start + i))]

\* The index get_error_context returns with the lines: error_index, and 0
\* from the except clause.
GetErrorIndex(source, line_num) ==
    IF ~ source.readable THEN 0
    ELSE line_num - Max({0, line_num - 3}) - 1

FullOutputMarker == <<"--- Full compiler output ---">>

\* Lines 140-141 with the text cut at its first line.
FullCompilerOutput_FirstLine(stderr) == <<FullOutputMarker, SplitLines(stderr)[1]>>

\* Lines 140-141: the marker line, then stderr as it was received.
FullCompilerOutput(stderr) == <<FullOutputMarker, stderr>>

\* errors.format_compilation_error with working_dir None.
FormatCompilationError(stderr, source) ==
    LET error == ParseNimError(stderr)
        symbol == IF error.level = "Error" THEN "(cross)" ELSE "(warning)"
        context_lines == GetErrorContext(source, error.line)
    IN  IF ~ error.found THEN stderr
        ELSE JoinLines(
                << <<"\n", symbol, " ", error.level, " in ">> \o error.file
                     \o <<":">> \o ToDigits(error.line),
                   <<>>,
                   <<"   ">> \o error.message,
                   <<>> >>
                \o (IF context_lines # <<>> THEN context_lines \o << <<>> >> ELSE <<>>)
                \o FullCompilerOutput(stderr))

\* The shapes a diagnostic line is written in: the blanks after the line
\* number, after the comma, after the column, after ")" and after ":", and
\* the indentation of the line.
Layouts ==
    { [a |-> <<>>, b |-> <<" ">>, c |-> <<>>, d |-> <<" ">>, e |-> <<" ">>, indent |-> <<>>],
      [a |-> <<" ">>, b |-> <<>>, c |-> <<" ">>, d |-> <<" ", " ">>, e |-> <<" ", " ">>,
       indent |-> <<" ">>] }

DiagnosticParts ==
    [file : {<<"a.nim">>, <<"lib", "/", "b.nim">>},
     pos : {[line |-> <<"7">>, col |-> <<"3">>], [line |-> <<"1", "2">>, col |-> <<"0", "5">>]},
     level : Levels,
     message : {<<"type", " ", "mismatch">>},
     layout : Layouts]

Render(d) ==
    d.layout.indent \o d.file \o <<"(">> \o d.pos.line \o d.layout.a \o <<",">>
    \o d.layout.b \o d.pos.col \o d.layout.c \o <<")">> \o d.layout.d
    \o <<d.level, ":">> \o d.layout.e \o d.message

\* Lines the compiler also writes that are no diagnostics.
OtherLines ==
    { <<>>,
      <<"linking", " ", "failed">>,
      <<"a.nim", "(", "7", ",", "3", ")", " ", "Note", ":", " ", "bad">>,
      <<"a.nim", "(", "7", ")", " ", "Error", ":", " ", "bad">>,
      <<"a.nim", "(", "7", ",", "3", ")", "Error", ":", " ", "bad">>,
      <<"a.nim", "(", "7", ",", "3", ")", " ", "Error", ":", " ">>,
      <<"(", "7", ",", "3", ")", " ", "Error", ":", " ", "bad">>,
      <<"Error", ":", " ", "bad">> }

StderrLines == {Render(d) : d \in DiagnosticParts} \cup OtherLines

SourceFiles == {[readable |-> FALSE, len |-> 0], [readable |-> TRUE, len |-> 8]}

ErInit ==
    /\ \E ls \in SeqsOf(StderrLines, 0, MaxStderrLines), nl \in {<<>>, <<"\n">>} :
          erStderr = JoinLines(ls) \o nl
    /\ erSource \in SourceFiles
    /\ erPc = "start"
    /\ erParsed = NoMatch
    /\ erFormatted = <<>>

ParseNimErrorStep ==
    /\ erPc = "start"
    /\ erParsed' = ParseNimError(erStderr)
    /\ erPc' = "parsed"
    /\ UNCHANGED <<erStderr, erSource, erFormatted>>

FormatCompilationErrorStep ==
    /\ erPc = "parsed"
    /\ erFormatted' = FormatCompilationError(erStderr, erSource)
    /\ erPc' = "formatted"
    /\ UNCHANGED <<erStderr, erSource, erParsed>>

ErIdle ==
    /\ erStderr = <<>> /\ erSource = [readable |-> FALSE, len |-> 0]
    /\ erPc = "idle" /\ erParsed = NoMatch /\ erFormatted = <<>>

(***************************************************************************)
(* Stub metadata.  stub_dir holds files [name, text]; the compiler output  *)
(* is a sequence of lines, each a sequence of symbols.  A JSON text is a   *)
(* chunk: json.loads either returns its data or raises.                    *)
(***************************************************************************)
MaxStdoutLines == 2

STUB_MARKER == "NUWA_STUB:"
Unreadable == "unreadable"

\* json.loads(text): [ok, data]
JsonLoads(text) ==
    CASE text = "{fa}" -> [ok |-> TRUE, data |-> "fa"]
      [] text = "{fb}" -> [ok |-> TRUE, data |-> "fb"]
      [] text = "{sa}" -> [ok |-> TRUE, data |-> "sa"]
      [] text = "{sb}" -> [ok |-> TRUE, data |-> "sb"]
      [] OTHER -> [ok |-> FALSE, data |-> ""]

\* What stub_dir may hold; d.json cannot be read (OSError).
StubDirFiles ==
    { [name |-> <<"a", ".json">>, text |-> "{fa}"],
      [name |-> <<"b", ".json">>, text |-> "{fb}"],
      [name |-> <<"c", ".json">>, text |-> "{fa"],
      [name |-> <<"d", ".json">>, text |-> Unreadable],
      [name |-> <<"notes", ".txt">>, text |-> "{sa}"] }

StdoutLines ==
    { <<STUB_MARKER, " ", "{sa}">>,
      <<" ", STUB_MARKER, "{sb}">>,
      <<STUB_MARKER, " ", "{sa">>,
      <<"Hint:", " ", STUB_MARKER, " ", "{sb}">>,
      <<"Hint:", " ", "used", " ", "config">> }

\* stub_dir.glob("*.json")
JsonFiles(files) == {f \in files : FnMatch(f.name, <<"*", ".json">>)}

\* The orders in which a directory listing may return the files S.
Orders(S) ==
    {o \in [1..Cardinality(S) -> S] : \A i, j \in 1..Cardinality(S) : i # j => o[i] # o[j]}

\* Lines 36-43: json.loads(json_file.read_text()); a file that cannot be
\* read or parsed is reported and skipped.
RECURSIVE EntriesOfFiles(_)
EntriesOfFiles(json_files) ==
    IF json_files = <<>> THEN <<>>
    ELSE LET f == Head(json_files)
             r == JsonLoads(f.text)
         IN  (IF f.text # Unreadable /\ r.ok THEN <<r.data>> ELSE <<>>)
             \o EntriesOfFiles(Tail(json_files))

\* Lines 48-56: line.strip(), startswith("NUWA_STUB:"), then json.loads of
\* what follows the marker, stripped.
RECURSIVE EntriesOfStdout(_)
EntriesOfStdout(lines) ==
    IF lines = <<>> THEN <<>>
    ELSE LET line == Strip(Head(lines))
             json_str == Strip(Tail(line))
             r == JsonLoads(IF Len(json_str) = 1 THEN json_str[1] ELSE "")
         IN  (IF line # <<>> /\ line[1] = STUB_MARKER /\ r.ok THEN <<r.data>> ELSE <<>>)
             \o EntriesOfStdout(Tail(lines))

\* The file branch taken only when a file could be parsed.
UseFiles_WhenParsed(dir_exists, json_files) ==
    dir_exists /\ EntriesOfFiles(json_files) # <<>>

\* Lines 32-34: stub_dir.exists() and json_files is not empty.
UseFiles(dir_exists, json_files) == dir_exists /\ json_files # <<>>

\* StubGenerator.parse_stubs: the entries appended to self.entries; the
\* count it returns is their number.
ParseStubs(dir_exists, json_files, stdout_lines) ==
    IF UseFiles(dir_exists, json_files) THEN EntriesOfFiles(json_files)
    ELSE EntriesOfStdout(stdout_lines)

StInit ==
    /\ stDirExists \in BOOLEAN
    /\ stFiles \in SUBSET StubDirFiles
    /\ ~ stDirExists => stFiles = {}
    /\ stStdout \in SeqsOf(StdoutLines, 0, MaxStdoutLines)
    /\ stPc = "start"
    /\ stEntries = <<>>
    /\ stCount = 0

ParseStubsStep ==
    /\ stPc = "start"
    /\ \E json_files \in Orders(JsonFiles(stFiles)) :
          LET added == ParseStubs(stDirExists, json_files, stStdout)
          IN  /\ stEntries' = stEntries \o added
              /\ stCount' = Len(added)
    /\ stPc' = "parsed"
    /\ UNCHANGED <<stDirExists, stFiles, stStdout>>

StIdle ==
    /\ stDirExists = FALSE /\ stFiles = {} /\ stStdout = <<>>
    /\ stPc = "idle" /\ stEntries = <<>> /\ stCount = 0

(***************************************************************************)
(* Watch mode (watch.py).  run_watch starts the watchdog observer, whose   *)
(* dispatch thread calls NimFileHandler.on_modified once per event, one    *)
(* event after the other, and then runs the initial build on the main      *)
(* thread.  Time is counted in ticks of a quarter of a second.             *)
(***************************************************************************)
DEFAULT_DEBOUNCE_DELAY == 2

MaxTime == 5
MaxEvents == 3

\* time.time() when run_watch starts: the epoch is far in the past, so the
\* first event is never within the delay of the initial last_compile = 0.0.
StartTime == DEFAULT_DEBOUNCE_DELAY + 1

WatchedPaths ==
    { <<"src/lib", ".nim">>, <<"src/lib", ".py">>, <<"src/lib.nim", ".bak">> }

\* event.src_path.endswith(".nim")
EndsWithNim(path) == Len(path) > 0 /\ path[Len(path)] = ".nim"

Debounced_Inclusive(now, last_compile, debounce_delay) ==
    now - last_compile <= debounce_delay

\* now - self.last_compile < self.debounce_delay
Debounced(now, last_compile, debounce_delay) ==
    now - last_compile < debounce_delay

\* The threads that are inside _compile_nim.
Building ==
    (IF wtMainPc = "initial build" THEN {"main"} ELSE {})
    \cup (IF wtObserverPc = "building" THEN {"observer"} ELSE {})

WtInit ==
    /\ wtClock = StartTime
    /\ wtQueue = <<>>
    /\ wtLastCompile = 0
    /\ wtMainPc = "setup"
    /\ wtObserverPc = "not started"
    /\ wtStarts = <<>>
    /\ wtLog = <<>>

\* observer.start()
StartObserver ==
    /\ wtMainPc = "setup"
    /\ wtMainPc' = "observer started"
    /\ wtObserverPc' = "idle"
    /\ UNCHANGED <<wtClock, wtQueue, wtLastCompile, wtStarts, wtLog>>

\* run_watch enters the initial _compile_nim.
InitialBuildStart ==
    /\ wtMainPc = "observer started"
    /\ wtMainPc' = "initial build"
    /\ UNCHANGED <<wtClock, wtQueue, wtLastCompile, wtObserverPc, wtStarts, wtLog>>

\* The initial _compile_nim returns or raises; run_watch prints and sleeps.
InitialBuildEnd ==
    /\ wtMainPc = "initial build"
    /\ wtMainPc' = "sleeping"
    /\ UNCHANGED <<wtClock, wtQueue, wtLastCompile, wtObserverPc, wtStarts, wtLog>>

\* A file under the watched directory is modified: the observer queues an event.
FileModified ==
    /\ wtObserverPc # "not started"
    /\ Len(wtQueue) + Len(wtLog) < MaxEvents
    /\ \E path \in WatchedPaths : wtQueue' = Append(wtQueue, path)
    /\ UNCHANGED <<wtClock, wtLastCompile, wtMainPc, wtObserverPc, wtStarts, wtLog>>

\* on_modified, from its entry to its return or to its call of _compile_nim.
OnModified ==
    /\ wtObserverPc = "idle"
    /\ wtQueue # <<>>
    /\ LET path == Head(wtQueue)
           now == wtClock
           accepted == EndsWithNim(path)
                       /\ ~ Debounced(now, wtLastCompile, DEFAULT_DEBOUNCE_DELAY)
       IN  /\ wtQueue' = Tail(wtQueue)
           /\ wtLastCompile' = IF accepted THEN now ELSE wtLastCompile
           /\ wtObserverPc' = IF accepted THEN "building" ELSE "idle"
           /\ wtStarts' = IF accepted THEN Append(wtStarts, now) ELSE wtStarts
           /\ wtLog' = Append(wtLog, [path |-> path, now |-> now,
                                      last_compile |-> wtLastCompile'])
    /\ UNCHANGED <<wtClock, wtMainPc>>

\* _compile_nim returns or raises inside on_modified, which prints and returns.
EventBuildEnd ==
    /\ wtObserverPc = "building"
    /\ wtObserverPc' = "idle"
    /\ UNCHANGED <<wtClock, wtQueue, wtLastCompile, wtMainPc, wtStarts, wtLog>>

\* A quarter of a second passes.
Tick ==
    /\ wtClock < StartTime + MaxTime
    /\ wtClock' = wtClock + 1
    /\ UNCHANGED <<wtQueue, wtLastCompile, wtMainPc, wtObserverPc, wtStarts, wtLog>>

WtIdle ==
    /\ wtClock = 0
    /\ wtQueue = <<>>
    /\ wtLastCompile = 0
    /\ wtMainPc = "idle"
    /\ wtObserverPc = "idle"
    /\ wtStarts = <<>>
    /\ wtLog = <<>>

(***************************************************************************)
(* Error reporting (cli.format_error, cli.handle_cli_error and the except  *)
(* clauses of watch mode).  An exception is its type, the classes it is an *)
(* instance of, and its text.                                              *)
(***************************************************************************)
ExceptionBases ==
    [ FileNotFoundError    |-> {"FileNotFoundError", "OSError"},
      PermissionError      |-> {"PermissionError", "OSError"},
      OSError              |-> {"OSError"},
      UnsupportedOperation |-> {"UnsupportedOperation", "OSError", "ValueError"},
      ValueError           |-> {"ValueError"},
      UnicodeDecodeError   |-> {"UnicodeDecodeError", "ValueError"},
      CalledProcessError   |-> {"CalledProcessError", "SubprocessError"},
      TimeoutExpired       |-> {"TimeoutExpired", "SubprocessError"},
      RuntimeError         |-> {"RuntimeError"},
      NotImplementedError  |-> {"NotImplementedError", "RuntimeError"},
      KeyError             |-> {"KeyError", "LookupError"},
      Exception            |-> {} ]

ExceptionTypes == DOMAIN ExceptionBases

\* isinstance(error, cls); every exception is an instance of Exception.
IsInstance(error, cls) ==
    cls = "Exception" \/ cls \in ExceptionBases[error.type]

ErrorTexts == { <<"text">>, <<>> }

FeModes == {"cli", "watch initial build", "watch event"}

NoError == [type |-> "none", text |-> <<>>]

FormatError_Rewrapped(error) ==
    IF IsInstance(error, "FileNotFoundError") THEN <<"Error: ">> \o error.text
    ELSE IF IsInstance(error, "ValueError")
         THEN <<"Configuration Error: ">> \o error.text
    ELSE IF IsInstance(error, "RuntimeError") THEN <<"Error: ">> \o error.text
    ELSE IF IsInstance(error, "OSError") THEN <<"System Error: ">> \o error.text
    ELSE <<"Unexpected Error (", error.type, "): ">> \o error.text

\* format_error: the first isinstance test that succeeds decides.
FormatError(error) ==
    IF IsInstance(error, "FileNotFoundError") THEN <<"Error: ">> \o error.text
    ELSE IF IsInstance(error, "ValueError")
         THEN <<"Configuration Error: ">> \o error.text
    ELSE IF IsInstance(error, "CalledProcessError") THEN <<>>
    ELSE IF IsInstance(error, "RuntimeError") THEN <<"Error: ">> \o error.text
    ELSE IF IsInstance(error, "OSError") THEN <<"System Error: ">> \o error.text
    ELSE <<"Unexpected Error (", error.type, "): ">> \o error.text

\* print(error_msg) when error_msg is not empty
PrintErrorMsg(stdout, error_msg) ==
    IF error_msg # <<>>
    THEN Append(stdout, [kind |-> "error message", text |-> error_msg])
    ELSE stdout

FeInit ==
    /\ feMode \in FeModes
    /\ feError = NoError
    /\ feStdout = <<>>
    /\ feExit = "running"
    /\ fePc = "command"

\* The command fails.  A failed compilation prints its formatted diagnostic in
\* _run_compilation and raises CalledProcessError; the only other
\* CalledProcessError of the package is caught inside check_nim_installed.
CommandRaises ==
    /\ fePc = "command"
    /\ \E type \in ExceptionTypes, text \in ErrorTexts :
          /\ feError' = [type |-> type, text |-> text]
          /\ feStdout' =
                IF type = "CalledProcessError"
                THEN Append(feStdout, [kind |-> "diagnostic",
                                       text |-> <<"format_compilation_error">>])
                ELSE feStdout
    /\ fePc' = "raised"
    /\ UNCHANGED <<feMode, feExit>>

\* handle_cli_error
HandleCliError ==
    /\ fePc = "raised"
    /\ feMode = "cli"
    /\ feStdout' = PrintErrorMsg(feStdout, FormatError(feError))
    /\ feExit' = 1
    /\ fePc' = "handled"
    /\ UNCHANGED <<feMode, feError>>

\* The except clauses of watch mode: print the message, keep watching.
WatchExcept ==
    /\ fePc = "raised"
    /\ feMode # "cli"
    /\ feStdout' = Append(PrintErrorMsg(feStdout, FormatError(feError)),
                          [kind |-> "status", text |-> <<"Watching for changes">>])
    /\ fePc' = "handled"
    /\ UNCHANGED <<feMode, feError, feExit>>

FeIdle ==
    /\ feMode = "idle"
    /\ feError = NoError
    /\ feStdout = <<>>
    /\ feExit = "idle"
    /\ fePc = "idle"

(***************************************************************************)
(* errors.get_error_context on its own: a file and a line number in, the   *)
(* numbered lines and the index of the error line out.                     *)
(***************************************************************************)
MaxSourceLen == 6

ContextSources ==
    { [readable |-> r, len |-> n] : r \in BOOLEAN, n \in 0..MaxSourceLen }

CxInit ==
    /\ cxSource \in ContextSources
    /\ cxLine \in 0..(MaxSourceLen + 1)
    /\ cxPc = "start"
    /\ cxContext = <<>>
    /\ cxIndex = 0

GetErrorContextStep ==
    /\ cxPc = "start"
    /\ cxContext' = GetErrorContext(cxSource, cxLine)
    /\ cxIndex' = GetErrorIndex(cxSource, cxLine)
    /\ cxPc' = "returned"
    /\ UNCHANGED <<cxSource, cxLine>>

CxIdle ==
    /\ cxSource = [readable |-> FALSE, len |-> 0]
    /\ cxLine = 0
    /\ cxPc = "idle"
    /\ cxContext = <<>>
    /\ cxIndex = 0

(***************************************************************************)
(* Specifications: one per component, the other components idle.           *)
(***************************************************************************)
InitWheelName ==
    WnInit /\ CmdIdle /\ MgIdle /\ MfIdle /\ BdIdle /\ RsIdle /\ ErIdle /\ StIdle /\ WtIdle /\ FeIdle /\ CxIdle
NextWheelName ==
    WheelNameStep
    /\ UNCHANGED <<cmdVars, mgVars, mfVars, bdVars, rsVars, erVars, stVars, wtVars, feVars, cxVars>>
SpecWheelName == InitWheelName /\ [][NextWheelName]_vars

InitNimCommand ==
    CmdInit /\ WnIdle /\ MgIdle /\ MfIdle /\ BdIdle /\ RsIdle /\ ErIdle /\ StIdle /\ WtIdle /\ FeIdle /\ CxIdle
NextNimCommand ==
    BuildNimCommandStep
    /\ UNCHANGED <<wnVars, mgVars, mfVars, bdVars, rsVars, erVars, stVars, wtVars, feVars, cxVars>>
SpecNimCommand == InitNimCommand /\ [][NextNimCommand]_vars

InitMerge ==
    MgInit /\ WnIdle /\ CmdIdle /\ MfIdle /\ BdIdle /\ RsIdle /\ ErIdle /\ StIdle /\ WtIdle /\ FeIdle /\ CxIdle
NextMerge ==
    MergeCliArgsStep
    /\ UNCHANGED <<wnVars, cmdVars, mfVars, bdVars, rsVars, erVars, stVars, wtVars, feVars, cxVars>>
SpecMerge == InitMerge /\ [][NextMerge]_vars

mfOthers == <<wnVars, cmdVars, mgVars, bdVars, rsVars, erVars, stVars, wtVars, feVars, cxVars>>

InitManifest ==
    MfInit /\ WnIdle /\ CmdIdle /\ MgIdle /\ BdIdle /\ RsIdle /\ ErIdle /\ StIdle /\ WtIdle /\ FeIdle /\ CxIdle
NextManifest ==
    \/ ParseManifestStep /\ UNCHANGED mfOthers
    \/ AddFilesFromManifestStep /\ UNCHANGED mfOthers
SpecManifest == InitManifest /\ [][NextManifest]_vars

bdOthers == <<wnVars, cmdVars, mgVars, mfVars, rsVars, erVars, stVars, wtVars, feVars, cxVars>>

InitBuild ==
    BdInit /\ WnIdle /\ CmdIdle /\ MgIdle /\ MfIdle /\ RsIdle /\ ErIdle /\ StIdle /\ WtIdle /\ FeIdle /\ CxIdle
NextBuild ==
    \/ CheckNimInstalled /\ UNCHANGED bdOthers
    \/ LoadConfig /\ UNCHANGED bdOthers
    \/ InstallDependencies /\ UNCHANGED bdOthers
    \/ DiscoverSources /\ UNCHANGED bdOthers
    \/ RunCompilation /\ UNCHANGED bdOthers
    \/ GenerateTypeStubs /\ UNCHANGED bdOthers
    \/ CopyMingwDlls /\ UNCHANGED bdOthers
    \/ ExtractMetadata /\ UNCHANGED bdOthers
    \/ OpenWheel /\ UNCHANGED bdOthers
    \/ AddPythonPackageFiles /\ UNCHANGED bdOthers
    \/ AddCompiledExtension /\ UNCHANGED bdOthers
    \/ AddTypeStubs /\ UNCHANGED bdOthers
    \/ AddWheelMetadata /\ UNCHANGED bdOthers
    \/ WritePth /\ UNCHANGED bdOthers
    \/ WriteEditableMetadata /\ UNCHANGED bdOthers
    \/ CloseWheel /\ UNCHANGED bdOthers
    \/ CleanupBuildArtifacts /\ UNCHANGED bdOthers
    \/ ReturnWheelName /\ UNCHANGED bdOthers
SpecBuild == InitBuild /\ [][NextBuild]_vars

rsOthers == <<wnVars, cmdVars, mgVars, mfVars, bdVars, erVars, stVars, wtVars, feVars, cxVars>>

InitResolve ==
    RsInit /\ WnIdle /\ CmdIdle /\ MgIdle /\ MfIdle /\ BdIdle /\ ErIdle /\ StIdle /\ WtIdle /\ FeIdle /\ CxIdle
NextResolve ==
    \/ ParseNuwaConfigStep /\ UNCHANGED rsOthers
    \/ MergeOverridesStep /\ UNCHANGED rsOthers
    \/ CompileStep /\ UNCHANGED rsOthers
    \/ ParseAgainStep /\ UNCHANGED rsOthers
SpecResolve == InitResolve /\ [][NextResolve]_vars

erOthers == <<wnVars, cmdVars, mgVars, mfVars, bdVars, rsVars, stVars, wtVars, feVars, cxVars>>

InitErrors ==
    ErInit /\ WnIdle /\ CmdIdle /\ MgIdle /\ MfIdle /\ BdIdle /\ RsIdle /\ StIdle /\ WtIdle /\ FeIdle /\ CxIdle
NextErrors ==
    \/ ParseNimErrorStep /\ UNCHANGED erOthers
    \/ FormatCompilationErrorStep /\ UNCHANGED erOthers
SpecErrors == InitErrors /\ [][NextErrors]_vars

InitStubs ==
    StInit /\ WnIdle /\ CmdIdle /\ MgIdle /\ MfIdle /\ BdIdle /\ RsIdle /\ ErIdle /\ WtIdle /\ FeIdle /\ CxIdle
NextStubs ==
    ParseStubsStep
    /\ UNCHANGED <<wnVars, cmdVars, mgVars, mfVars, bdVars, rsVars, erVars, wtVars, feVars, cxVars>>
SpecStubs == InitStubs /\ [][NextStubs]_vars

wtOthers == <<wnVars, cmdVars, mgVars, mfVars, bdVars, rsVars, erVars, stVars, feVars, cxVars>>

InitWatch ==
    WtInit /\ WnIdle /\ CmdIdle /\ MgIdle /\ MfIdle /\ BdIdle /\ RsIdle /\ ErIdle /\ StIdle /\ FeIdle /\ CxIdle
NextWatch ==
    \/ StartObserver /\ UNCHANGED wtOthers
    \/ InitialBuildStart /\ UNCHANGED wtOthers
    \/ InitialBuildEnd /\ UNCHANGED wtOthers
    \/ FileModified /\ UNCHANGED wtOthers
    \/ OnModified /\ UNCHANGED wtOthers
    \/ EventBuildEnd /\ UNCHANGED wtOthers
    \/ Tick /\ UNCHANGED wtOthers
SpecWatch == InitWatch /\ [][NextWatch]_vars

feOthers == <<wnVars, cmdVars, mgVars, mfVars, bdVars, rsVars, erVars, stVars, wtVars, cxVars>>

InitReport ==
    FeInit /\ WnIdle /\ CmdIdle /\ MgIdle /\ MfIdle /\ BdIdle /\ RsIdle /\ ErIdle /\ StIdle /\ WtIdle /\ CxIdle
NextReport ==
    \/ CommandRaises /\ UNCHANGED feOthers
    \/ HandleCliError /\ UNCHANGED feOthers
    \/ WatchExcept /\ UNCHANGED feOthers
SpecReport == InitReport /\ [][NextReport]_vars

InitContext ==
    CxInit /\ WnIdle /\ CmdIdle /\ MgIdle /\ MfIdle /\ BdIdle /\ RsIdle /\ ErIdle /\ StIdle /\ WtIdle /\ FeIdle
NextContext ==
    GetErrorContextStep
    /\ UNCHANGED <<wnVars, cmdVars, mgVars, mfVars, bdVars, rsVars, erVars, stVars, wtVars, feVars>>
SpecContext == InitContext /\ [][NextContext]_vars

------------------------------------------------------------------------------
\* C2: a standard build's archive file name is the project name with every
\* hyphen replaced by an underscore, then "-", the version unchanged, "-",
\* the compatibility tag unchanged, then ".whl".
C2_WheelFileName ==
    wnPc = "named" =>
        LET f == wnReturned
            n == Len(wnName)
            v == Len(wnVersion)
            t == Len(wnTag)
        IN  /\ Len(f) = n + 1 + v + 1 + t + 4
            /\ \A i \in 1..n : f[i] = (IF wnName[i] = "-" THEN "_" ELSE wnName[i])
            /\ f[n + 1] = "-"
            /\ \A i \in 1..v : f[n + 1 + i] = wnVersion[i]
            /\ f[n + 1 + v + 1] = "-"
            /\ \A i \in 1..t : f[n + 1 + v + 1 + i] = wnTag[i]
            /\ Slice(f, Len(f) - 3, Len(f)) = <<".", "w", "h", "l">>

\* C2 witness: a name with a hyphen and a version with a hyphen have been named.
C2_Witness ==
    /\ wnPc = "named"
    /\ Positions(wnName, "-") # {}
    /\ Positions(wnVersion, "-") # {}
    /\ Len(wnName) >= 3

------------------------------------------------------------------------------
\* C3: the compiler command is, in this order: nim, c, --app:lib, --out:<output>,
\* --path:<source dir>, then --nimblePath:<dir> only when the local dependency
\* directory has a pkgs2 (preferred) or pkgs subdirectory, then -d:release
\* exactly when build_type is release, then every extra flag in its original
\* order with duplicates kept, then the entry point last.
C3_CommandOrder ==
    cmdPc = "built" =>
        LET c == cmdResult
            hasDeps == cmdNimblePath # NoPath /\ cmdDirs \cap {"pkgs2", "pkgs"} # {}
            a == IF hasDeps THEN 1 ELSE 0
            r == IF cmdBuildType = "release" THEN 1 ELSE 0
            k == Len(cmdFlags)
        IN  /\ Len(c) = 5 + a + r + k + 1
            /\ c[1] = <<"nim">>
            /\ c[2] = <<"c">>
            /\ c[3] = <<"--app:lib">>
            /\ c[4] = <<"--out:", cmdOut>>
            /\ c[5] = <<"--path:", cmdNimDir>>
            /\ hasDeps => c[6] = <<"--nimblePath:", cmdNimblePath,
                                   IF "pkgs2" \in cmdDirs THEN "pkgs2" ELSE "pkgs">>
            /\ r = 1 => c[5 + a + 1] = <<"-d:release">>
            /\ \A i \in 1..k : c[5 + a + r + i] = <<cmdFlags[i]>>
            /\ c[Len(c)] = <<cmdEntry>>

\* C3 witness: a release build with both dependency subdirectories present and
\* two equal extra flags.
C3_Witness ==
    /\ cmdPc = "built"
    /\ cmdBuildType = "release"
    /\ cmdNimblePath # NoPath
    /\ cmdDirs = {"pkgs2", "pkgs"}
    /\ Len(cmdFlags) = 2 /\ cmdFlags[1] = cmdFlags[2]

------------------------------------------------------------------------------
------------------------------------------------------------------------------
(* What the lines of a MANIFEST.in ask for, read line by line: the meaning  *)
(* the claims C4 and C5 give them.                                          *)
WellFormedLine(line) ==
    /\ line # <<>>
    /\ Head(Head(line)) # "#"
    /\ Len(line) >= 2
    /\ Len(line[1]) = 1
    /\ line[1][1] \in ManifestCommands

LineCommand(line) == line[1][1]

\* Files a recursive-include / recursive-exclude line names: under a
\* directory matching DIR, with a name matching one of P1..Pn.
RecursiveLineFiles(files, package_dir, line) ==
    {f \in files :
        /\ Len(line) >= 3
        /\ \E d \in Glob(files, package_dir, line[2]) :
                IsDir(files, d) /\ f \in Below(files, d)
        /\ \E i \in 3..Len(line) : FnMatch(Last(f), line[i])}

LineFiles(files, package_dir, line) ==
    IF ~WellFormedLine(line) THEN {}
    ELSE IF LineCommand(line) \in {"include", "exclude"}
    THEN {f \in files : \E i \in 2..Len(line) : f \in Glob(files, package_dir, line[i])}
    ELSE IF LineCommand(line) \in {"recursive-include", "recursive-exclude"}
    THEN RecursiveLineFiles(files, package_dir, line)
    ELSE {f \in files : /\ f \in Below(files, package_dir)
                        /\ \E i \in 2..Len(line) : FnMatch(Last(f), line[i])}

InclusionCommands == {"include", "recursive-include", "global-include"}
ExclusionCommands == {"exclude", "recursive-exclude", "global-exclude"}

LinesOf(lines, cmds) ==
    {l \in Range(lines) : WellFormedLine(l) /\ LineCommand(l) \in cmds}

IncludedByRules(files, package_dir, lines) ==
    {f \in files : f \in Below(files, package_dir) /\ FnMatch(Last(f), <<"*", ".py">>)}
    \cup UNION {LineFiles(files, package_dir, l) : l \in LinesOf(lines, InclusionCommands)}

ExcludedByRules(files, package_dir, lines) ==
    UNION {LineFiles(files, package_dir, l) : l \in LinesOf(lines, ExclusionCommands)}

\* C4: with a MANIFEST.in, a file matched by any exclusion rule (exclude,
\* recursive-exclude, global-exclude) is never written to the archive,
\* whichever inclusion rule also matches it and whatever the order of the
\* rules in the file.
C4_ExclusionWins ==
    mfPc = "written" =>
        \A f \in ExcludedByRules(mfFiles, MfPackageDir, mfLines) :
            StrPath(f) \notin mfWritten

\* The second half of C4: the set written is exactly the files the inclusion
\* rules name minus the files the exclusion rules name.
C4_ExactSet ==
    mfPc = "written" =>
        mfWritten =
            {StrPath(f) : f \in IncludedByRules(mfFiles, MfPackageDir, mfLines)
                                \ ExcludedByRules(mfFiles, MfPackageDir, mfLines)}

\* The statement of C4 for manifests whose recursive lines carry one pattern
\* each: the only case the pairing of lines 210-223 and 238-250 reads right.
OnePatternPerRecursiveLine ==
    \A l \in LinesOf(mfLines, {"recursive-include", "recursive-exclude"}) : Len(l) = 3

C4_HoldsWithOnePatternPerLine ==
    (mfPc = "written" /\ OnePatternPerRecursiveLine) =>
        mfWritten =
            {StrPath(f) : f \in IncludedByRules(mfFiles, MfPackageDir, mfLines)
                                \ ExcludedByRules(mfFiles, MfPackageDir, mfLines)}

\* C5: a line "recursive-include DIR P1 ... Pn" includes every file under DIR
\* whose name matches any one of P1..Pn unless an exclusion rule matches it,
\* and "recursive-exclude DIR P1 ... Pn" excludes every file under DIR that
\* matches any one of P1..Pn, for any number of lines and patterns.
C5_RecursiveMultiPattern ==
    mfPc = "written" =>
        /\ \A l \in LinesOf(mfLines, {"recursive-include"}) :
              \A f \in RecursiveLineFiles(mfFiles, MfPackageDir, l) :
                 f \notin ExcludedByRules(mfFiles, MfPackageDir, mfLines)
                    => StrPath(f) \in mfWritten
        /\ \A l \in LinesOf(mfLines, {"recursive-exclude"}) :
              \A f \in RecursiveLineFiles(mfFiles, MfPackageDir, l) :
                 StrPath(f) \notin mfWritten

------------------------------------------------------------------------------
\* How many times an archive path has been written.
RECURSIVE SumCopies(_, _)
SumCopies(S, B) ==
    IF S = {} THEN 0
    ELSE LET e == CHOOSE x \in S : TRUE
         IN  CopiesIn(e, B) + SumCopies(S \ {e}, B)

ArcCount(archive, arcname) ==
    SumCopies({e \in BagToSet(archive) : e.arcname = arcname}, archive)

CompilerFailed == bdReturncode.ran /\ bdReturncode.code # 0

\* C1: when the compiler exits with a non-zero status the hook ends with a
\* CalledProcessError, the formatted diagnostic has been printed, and nothing
\* downstream has run: no stub file written, no archive created in
\* wheel_directory, no entry written, no file name returned.  Conversely
\* build_wheel has returned a file name only if the compiler ran and exited
\* with status 0.
C1_CompileFailureStopsBuild ==
    /\ CompilerFailed =>
          /\ bdPc = "failed"
          /\ bdError = "CalledProcessError"
          /\ \E i \in 1..Len(bdPrinted) : bdPrinted[i] = "compile_error"
          /\ ~ bdStubWritten
          /\ bdWheelDir = {}
          /\ bdArchiveState = "none"
          /\ bdArchive = EmptyBag
          /\ bdResult = <<>>
    /\ (bdHook = "wheel" /\ bdResult # <<>>) =>
          (bdReturncode.ran /\ bdReturncode.code = 0)

\* A standard build whose compiler exited with a non-zero status.
C1_Witness ==
    /\ bdHook = "wheel"
    /\ CompilerFailed
    /\ bdPc = "failed"
    /\ bdPrinted = <<"compiling", "compile_error">>

------------------------------------------------------------------------------
\* C6: in a standard build no entry written by the source-file scan, default
\* or MANIFEST.in-driven, is a compiled-extension file (.so, .pyd, .dll,
\* .dylib), and the path '{normalizedName}/{libName}{platformExt}' of the
\* compiled artifact is written at most once, by the explicit step.
C6_ScanSkipsCompiledFiles ==
    bdHook = "wheel" =>
        LET artifact == ExtensionArcname(NormalizePackageName(bdName),
                                         ConfigLibName(bdName), bdPlatform.ext)
        IN  /\ \A e \in BagToSet(bdArchive) :
                  e.by = "scan" => Last(e.arcname) \notin BinarySuffixes
            /\ ArcCount(bdArchive, artifact) <= 1
            /\ \A e \in BagToSet(bdArchive) :
                  e.arcname = artifact => e.by = "extension"

\* The same for builds without MANIFEST.in: the default scan.
C6_DefaultScanSkipsCompiledFiles ==
    (bdHook = "wheel" /\ ~ bdManifest.present) =>
        \A e \in BagToSet(bdArchive) :
            e.by = "scan" => Last(e.arcname) \notin BinarySuffixes

\* No archive path is written twice in one build.
C6_NoPathWrittenTwice ==
    \A e \in BagToSet(bdArchive) : ArcCount(bdArchive, e.arcname) = 1

------------------------------------------------------------------------------
\* The DLL files next to the compiled artifact, and the DLL entries the
\* extension step wrote.
DllsNextToArtifact ==
    {p \in bdFs : /\ Len(p) = Len(bdSoFile)
                  /\ Parent(p) = Parent(bdSoFile)
                  /\ Suffix(Last(p)) = ".dll"}

DllEntries ==
    {e \in BagToSet(bdArchive) : e.by = "extension" /\ Last(e.arcname) = ".dll"}

AfterExtensionStep == bdPc \in {"type_stubs", "wheel_metadata", "close", "cleanup"}

\* C7: once the extension step of a standard build has run, the compiled
\* artifact is in the archive; if the artifact is a .pyd and
\* bundle_adjacent_dlls is True every DLL next to it is in the archive as
\* '{normalizedName}/{dll name}'; if the toggle is False, or the artifact is
\* not a .pyd, the step has added no DLL.
C7_DllToggle ==
    (bdHook = "wheel" /\ AfterExtensionStep) =>
        LET nn == NormalizePackageName(bdName)
        IN  /\ \E e \in BagToSet(bdArchive) :
                  /\ e.by = "extension"
                  /\ e.arcname = nn \o <<"/">> \o ConfigLibName(bdName) \o bdPlatform.ext
            /\ IF Suffix(Last(bdSoFile)) = ".pyd" /\ bdBundle
               THEN {e.arcname : e \in DllEntries}
                        = {nn \o <<"/">> \o Last(d) : d \in DllsNextToArtifact}
               ELSE DllEntries = {}

\* The same with the toggle left out: a .pyd gets every adjacent DLL, any
\* other artifact none.
C7_BundlesByExtensionOnly ==
    (bdHook = "wheel" /\ AfterExtensionStep) =>
        LET nn == NormalizePackageName(bdName)
        IN  IF Suffix(Last(bdSoFile)) = ".pyd"
            THEN {e.arcname : e \in DllEntries}
                     = {nn \o <<"/">> \o Last(d) : d \in DllsNextToArtifact}
            ELSE DllEntries = {}

------------------------------------------------------------------------------
\* C8: when build_editable has returned, the name returned is
\* '{normalizedName}-{version}-py3-none-any.whl', the archive of that name is
\* the one created, and its entries are exactly three, each written once: a
\* .pth entry whose text is the project root, the WHEEL record under
\* '{normalizedName}-{version}.dist-info/' carrying 'Tag: py3-none-any', and
\* the METADATA record under the same directory; none is a copy of a file.
C8_EditableArchive ==
    (bdHook = "editable" /\ bdPc = "done") =>
        LET nn == [i \in 1..Len(bdName) |-> IF bdName[i] = "-" THEN "_" ELSE bdName[i]]
            dist == nn \o <<"-">> \o ProjectVersion \o <<".dist-info">>
            ents == BagToSet(bdArchive)
        IN  /\ bdResult = nn \o <<"-">> \o ProjectVersion
                             \o <<"-","p","y","3","-","n","o","n","e","-","a","n","y">>
                             \o <<".", "w", "h", "l">>
            /\ bdWheelDir = {bdResult}
            /\ bdArchiveState = "closed"
            /\ BagCardinality(bdArchive) = 3
            /\ \E pth \in ents, whl \in ents, meta \in ents :
                  /\ Last(pth.arcname) = ".pth"
                  /\ pth.text = Cwd
                  /\ whl.arcname = dist \o <<"/WHEEL">>
                  /\ \E k \in 1..Len(whl.text) :
                        /\ whl.text[k] = "Tag: "
                        /\ Slice(whl.text, k + 1, Len(whl.text))
                              = <<"p","y","3","-","n","o","n","e","-","a","n","y","\n">>
                  /\ meta.arcname = dist \o <<"/METADATA">>
            /\ \A e \in ents : e.src = <<>>

\* An editable build of a project whose name has a hyphen has returned.
C8_Witness ==
    /\ bdHook = "editable"
    /\ bdPc = "done"
    /\ "-" \in Range(bdName)
    /\ bdResult # <<>>
    /\ bdSoFile \in bdFs

------------------------------------------------------------------------------
\* C9: when build_wheel has returned, the compiled artifact, the stub file
\* '{lib_name}.pyi' beside it and, for a .pyd artifact, the DLL copies made
\* for bundling are gone from where the build put them; and whenever the
\* build has deleted anything, the archive is closed and holds its metadata
\* records.
C9_CleanupAfterClose ==
    /\ (bdHook = "wheel" /\ bdPc = "done") =>
          /\ bdSoFile \notin bdFs
          /\ Parent(bdSoFile) \o <<ConfigLibName(bdName) \o <<".pyi">>>> \notin bdFs
          /\ (Suffix(Last(bdSoFile)) = ".pyd" => bdCopied \cap bdFs = {})
    /\ bdDeleted # {} =>
          /\ bdArchiveState = "closed"
          /\ \E e \in BagToSet(bdArchive) : e.by = "metadata"

\* A standard .pyd build that wrote a stub and copied runtime DLLs has
\* returned.
C9_Witness ==
    /\ bdHook = "wheel"
    /\ bdPc = "done"
    /\ bdResult # <<>>
    /\ bdStubWritten
    /\ Suffix(Last(bdSoFile)) = ".pyd"
    /\ bdCopied # {}
    /\ bdCopied \subseteq bdDeleted
    /\ bdSoFile \in bdDeleted

------------------------------------------------------------------------------
\* C11: after merge_cli_args, the resolved output_location is the
\* output_location override when the overrides carry both output_location and
\* output_dir, the output_dir override when they carry only output_dir, and
\* the base value when they carry neither.
C11_OutputLocationPrecedence ==
    mgPc = "merged" =>
        LET loc == mgCli.output_location
            dir == mgCli.output_dir
            R == mgResult.output_location
        IN  /\ (loc.set /\ dir.set) => R = loc.val
            /\ (~ loc.set /\ dir.set) => R = dir.val
            /\ (~ loc.set /\ ~ dir.set) => R = mgConfig.output_location

\* Both keys were supplied and the merge has run.
C11_Witness ==
    /\ mgPc = "merged"
    /\ mgCli.output_location.set
    /\ mgCli.output_dir.set
    /\ mgCli.output_location.val # mgCli.output_dir.val
    /\ mgResult.output_location = <<"Y">>

------------------------------------------------------------------------------
StringKeys == {"module_name", "nim_source", "entry_point"}
ToggleKeys == {"allow_manifest_binaries", "windows_static_linking",
               "bundle_adjacent_dlls"}

\* C12: after merge_cli_args, every directly overridable field for which the
\* overrides supply a value (a non-empty string, or a boolean, False
\* included) equals that value, and every field they do not supply keeps
\* its base value.
C12_OverridesWin ==
    mgPc = "merged" =>
        /\ \A k \in StringKeys :
              IF mgCli[k].set /\ mgCli[k].val # <<>>
              THEN mgResult[k] = mgCli[k].val
              ELSE mgCli[k].set \/ mgResult[k] = mgConfig[k]
        /\ \A k \in ToggleKeys :
              IF mgCli[k].set
              THEN mgResult[k] = mgCli[k].val
              ELSE mgResult[k] = mgConfig[k]

\* The same for the values the merge does apply: non-empty strings and True.
C12_TruthyOverridesWin ==
    mgPc = "merged" =>
        /\ \A k \in StringKeys :
              IF mgCli[k].set /\ mgCli[k].val # <<>>
              THEN mgResult[k] = mgCli[k].val
              ELSE mgResult[k] = mgConfig[k]
        /\ \A k \in ToggleKeys :
              IF mgCli[k].set /\ mgCli[k].val
              THEN mgResult[k] = TRUE
              ELSE mgResult[k] = mgConfig[k]

------------------------------------------------------------------------------
\* The flags each layer supplies in a build: [tool.nuwa] nim-flags and the
\* caller's nim_flags (a build applies no profile).
LayerFlags ==
    Range(ToolOf(rsFile).nim_flags.val)
    \cup (IF rsProfile # NoProfile THEN Range(ToolOf(rsFile).profile_flags.val) ELSE {})
    \cup Range(rsOverrides.nim_flags.val)

\* How often the one-string argument `flag` is in the compiler command.
ArgCount(cmd, flag) == Cardinality({i \in 1..Len(cmd) : cmd[i] = <<flag>>})

CompilerInvoked == rsMode = "build" /\ rsPc = "compiled"

\* C13: every configuration a build hands to source discovery and to the
\* compiler has a module_name that is a valid identifier and a nim_source
\* that is not blank, whichever layer the values came from.
C13_UsedConfigIsValid ==
    (rsMode = "build" /\ rsPc \in {"merged", "compiled"}) =>
        /\ IsIdentifier(rsConfig.module_name)
        /\ Strip(rsConfig.nim_source) # <<>>

\* The part of C13 that holds: what parse_nuwa_config returns is valid, and
\* an invalid manifest value ends the build before the compiler runs.
C13_ManifestLayerIsValidated ==
    /\ rsFirst.error = "none" =>
          IsIdentifier(rsFirst.config.module_name) /\ Strip(rsFirst.config.nim_source) # <<>>
    /\ (CompilerInvoked /\ rsOverrides = EmptyOverrides) =>
          IsIdentifier(rsConfig.module_name) /\ Strip(rsConfig.nim_source) # <<>>

------------------------------------------------------------------------------
\* C14: on win32, with static linking enabled in the configuration the build
\* uses and no layer supplying '--cc:vcc' or '--passL:-static', the compiler
\* command holds '--passL:-static' exactly once.
C14_StaticFlagExactlyOnce ==
    (/\ CompilerInvoked
     /\ rsPlatform = "win32"
     /\ rsConfig.windows_static_linking
     /\ LayerFlags \cap {StaticFlag, VccFlag} = {}) =>
        ArgCount(rsCmd, StaticFlag) = 1

\* The part of C14 that holds: the same with static linking enabled by the
\* manifest or by default.
C14_OnceWhenManifestEnables ==
    (/\ CompilerInvoked
     /\ rsPlatform = "win32"
     /\ rsFirst.config.windows_static_linking
     /\ LayerFlags \cap {StaticFlag, VccFlag} = {}) =>
        ArgCount(rsCmd, StaticFlag) = 1

------------------------------------------------------------------------------
OverrideDisablesStaticLinking ==
    rsOverrides.windows_static_linking.set /\ ~ rsOverrides.windows_static_linking.val

\* C15: when no layer supplies '--passL:-static', the compiler command holds
\* it only on win32, with static linking enabled (not disabled by the
\* manifest or by a caller override) and '--cc:vcc' not among the flags of
\* any layer.
C15_StaticFlagOnlyWhenDue ==
    (/\ CompilerInvoked
     /\ StaticFlag \notin LayerFlags
     /\ ArgCount(rsCmd, StaticFlag) > 0) =>
        /\ rsPlatform = "win32"
        /\ rsConfig.windows_static_linking
        /\ ~ OverrideDisablesStaticLinking
        /\ VccFlag \notin LayerFlags

\* The part of C15 that holds: the same when the caller overrides neither
\* the toggle nor the flags.
C15_ManifestLayerOnly ==
    (/\ CompilerInvoked
     /\ StaticFlag \notin LayerFlags
     /\ ~ rsOverrides.windows_static_linking.set
     /\ ~ rsOverrides.nim_flags.set
     /\ ArgCount(rsCmd, StaticFlag) > 0) =>
        /\ rsPlatform = "win32"
        /\ rsConfig.windows_static_linking
        /\ VccFlag \notin LayerFlags

------------------------------------------------------------------------------
\* str.replace("-", "_") written out for the two project names of the model.
ExpectedModuleName ==
    IF rsFile.exists /\ rsFile.name.set
    THEN <<"m", "y", "_", "p">>
    ELSE <<"n", "u", "w", "a", "_", "p", "r", "o", "j", "e", "c", "t">>

\* C16: parse_nuwa_config derives module_name from the project name with
\* hyphens replaced, lib_name as module_name + "_lib" and entry_point as
\* lib_name + ".nim"; a module-name of the tool table replaces the derived
\* one and the other two follow it; without a manifest the project name is
\* "nuwa_project" and nim_source is "nim".
C16_DerivedDefaults ==
    (rsPc # "parse" /\ rsFirst.error = "none") =>
        LET c == rsFirst.config
            nuwa == IF rsFile.exists THEN rsFile.nuwa ELSE EmptyTool
        IN  /\ c.module_name = IF nuwa.module_name.set THEN nuwa.module_name.val
                               ELSE ExpectedModuleName
            /\ ~ nuwa.lib_name.set => c.lib_name = c.module_name \o <<"_", "l", "i", "b">>
            /\ ~ nuwa.entry_point.set => c.entry_point = c.lib_name \o <<".", "n", "i", "m">>
            /\ ~ rsFile.exists =>
                  /\ c.module_name = <<"n", "u", "w", "a", "_", "p", "r", "o", "j", "e", "c", "t">>
                  /\ c.nim_source = <<"n", "i", "m">>

C16_Witness ==
    /\ rsPc = "parsed" /\ rsFirst.error = "none"
    /\ rsFile.nuwa.module_name.set /\ ~ rsFile.nuwa.lib_name.set
    /\ rsFirst.config.lib_name = <<"m", "o", "d", "_", "l", "i", "b">>
    /\ rsFirst.config.entry_point = <<"m", "o", "d", "_", "l", "i", "b", ".", "n", "i", "m">>

------------------------------------------------------------------------------
------------------------------------------------------------------------------
\* The diagnostics a line of stderr is a writing of: the line, blanks at its
\* ends aside, is <file>(<line>,<col>) <Level>: <message> in some layout.
DiagnosticsOf(line) == {d \in DiagnosticParts : Strip(Render(d)) = Strip(line)}

\* The number a digit string of the model stands for, and how it is printed.
ExpectedInt(ds) ==
    CASE ds = <<"7">> -> 7 [] ds = <<"3">> -> 3
      [] ds = <<"1", "2">> -> 12 [] ds = <<"0", "5">> -> 5

ExpectedDigits(ds) == IF ds = <<"0", "5">> THEN <<"5">> ELSE ds

StderrLinesOf(text) == SplitLines(text)

DiagnosticLineNumbers ==
    {i \in 1..Len(StderrLinesOf(erStderr)) : DiagnosticsOf(StderrLinesOf(erStderr)[i]) # {}}

FirstDiagnostics == DiagnosticsOf(StderrLinesOf(erStderr)[Min(DiagnosticLineNumbers)])

\* C18: parse_nim_error returns file, line, col, level and message of the
\* first line of stderr that has the diagnostic form, line and col as
\* integers, whatever the optional blanks; later diagnostic lines are
\* ignored; without such a line it returns None.
C18_FirstDiagnosticParsed ==
    erPc \in {"parsed", "formatted"} =>
        IF DiagnosticLineNumbers = {} THEN erParsed = NoMatch
        ELSE \E d \in FirstDiagnostics :
                erParsed = [found |-> TRUE,
                            file |-> d.file,
                            line |-> ExpectedInt(d.pos.line),
                            col |-> ExpectedInt(d.pos.col),
                            level |-> d.level,
                            message |-> d.message]

C18_Witness ==
    /\ erPc = "parsed"
    /\ Cardinality(DiagnosticLineNumbers) = 2
    /\ erParsed.found /\ erParsed.line = 12 /\ erParsed.col = 5
    /\ erParsed.level = "Warning"
    /\ \E d \in DiagnosticsOf(StderrLinesOf(erStderr)[Max(DiagnosticLineNumbers)]) :
          d.pos.line = <<"7">> /\ d.level = "Error"

------------------------------------------------------------------------------
\* C19: format_compilation_error returns stderr itself when no line is a
\* diagnostic; otherwise its result starts with the severity header and the
\* message and ends with the line '--- Full compiler output ---' followed by
\* the whole of stderr.
C19_RawOutputKept ==
    erPc = "formatted" =>
        IF DiagnosticLineNumbers = {} THEN erFormatted = erStderr
        ELSE \E d \in FirstDiagnostics :
                LET symbol == IF d.level = "Error" THEN "(cross)" ELSE "(warning)"
                    head == <<"\n", symbol, " ", d.level, " in ">> \o d.file \o <<":">>
                            \o ExpectedDigits(d.pos.line)
                            \o <<"\n", "\n", "   ">> \o d.message \o <<"\n", "\n">>
                    tail == <<"--- Full compiler output ---", "\n">> \o erStderr
                    n == Len(erFormatted)
                IN  /\ n >= Len(head) + Len(tail)
                    /\ SubSeq(erFormatted, 1, Len(head)) = head
                    /\ SubSeq(erFormatted, n - Len(tail) + 1, n) = tail

C19_Witness ==
    /\ erPc = "formatted"
    /\ Cardinality(DiagnosticLineNumbers) = 1
    /\ Len(StderrLinesOf(erStderr)) = 2
    /\ erSource.readable /\ erParsed.line = 7
    /\ Len(erFormatted) > Len(erStderr) + 20

C19_WitnessNoDiagnostic ==
    /\ erPc = "formatted"
    /\ DiagnosticLineNumbers = {}
    /\ Len(StderrLinesOf(erStderr)) = 2
    /\ erFormatted = erStderr /\ Len(erStderr) > 10

------------------------------------------------------------------------------
HasJsonFile == \E f \in stFiles : f.name[Len(f.name)] = ".json"

\* How many files of stub_dir hold the well-formed JSON text of entry v.
FilesHolding(v) ==
    Cardinality({f \in stFiles : f.name[Len(f.name)] = ".json" /\ f.text = v})

Occurrences(s, v) == Cardinality({i \in 1..Len(s) : s[i] = v})

\* The entry each line of the model's compiler output carries, if any.
RECURSIVE MarkerEntries(_)
MarkerEntries(lines) ==
    IF lines = <<>> THEN <<>>
    ELSE (CASE Head(lines) = <<"NUWA_STUB:", " ", "{sa}">> -> <<"sa">>
            [] Head(lines) = <<" ", "NUWA_STUB:", "{sb}">> -> <<"sb">>
            [] OTHER -> <<>>)
         \o MarkerEntries(Tail(lines))

\* C20: when stub_dir exists and holds at least one .json file the entries
\* come from the files only (one per file that can be read and parsed) and
\* no marker line of the compiler output adds one, even if every file is
\* malformed; the output is parsed only when the directory is absent or
\* holds no .json file.
C20_FilesOrStdout ==
    stPc = "parsed" =>
        /\ stCount = Len(stEntries)
        /\ IF stDirExists /\ HasJsonFile
           THEN /\ Occurrences(stEntries, "fa") = FilesHolding("{fa}")
                /\ Occurrences(stEntries, "fb") = FilesHolding("{fb}")
                /\ Len(stEntries) = FilesHolding("{fa}") + FilesHolding("{fb}")
           ELSE stEntries = MarkerEntries(stStdout)

C20_Witness ==
    /\ stPc = "parsed"
    /\ stDirExists /\ HasJsonFile
    /\ FilesHolding("{fa}") + FilesHolding("{fb}") = 0
    /\ MarkerEntries(stStdout) # <<>>
    /\ stEntries = <<>> /\ stCount = 0

C20_WitnessFallback ==
    /\ stPc = "parsed"
    /\ stDirExists /\ stFiles # {} /\ ~ HasJsonFile
    /\ stEntries = <<"sa", "sb">>

------------------------------------------------------------------------------
\* The hook ended in the stub step: the compiler exited with status 0 and
\* generate_pyi raised on an entry read from its output.
StubStepFailed ==
    /\ bdPc = "failed"
    /\ bdReturncode = [ran |-> TRUE, code |-> 0]
    /\ GeneratePyiRaises(StubEntries(bdStdout))

\* C21: stub extraction and stub-file generation never end a build: whatever
\* the marker lines of the compiler output hold, the bad entry is skipped
\* and a build whose compilation succeeded goes on to packaging.
C21_StubsNeverAbort == ~ StubStepFailed

\* The part of C21 that holds: a marker line whose JSON does not parse is
\* skipped and the build goes on.
C21_MalformedJsonSkipped ==
    (/\ bdReturncode = [ran |-> TRUE, code |-> 0]
     /\ bdPc \notin {"compile", "stubs"}
     /\ \A i \in 1..Len(bdStdout) : bdStdout[i] \in {"text", "stub_bad"}) =>
        /\ ~ bdStubWritten
        /\ bdPc = "failed" => bdError = "KeyError" /\ bdName = <<>>

------------------------------------------------------------------------------
\* The messages that carry the installation hint.
InstallHintMessages ==
    {"Nim compiler not found in PATH. Install Nim from",
     "Nim compiler not found at. Install Nim from"}

\* C22: when nim cannot be located the hook ends with a RuntimeError whose
\* message carries the installation hint, never with a CalledProcessError;
\* no compiler subprocess has exited, no stub and no archive is written,
\* and when nim was missing from the start no dependency was installed.
C22_MissingNimIsToolNotFound ==
    bdNim = "missing" =>
        /\ bdPc = "failed"
        /\ bdError = "RuntimeError"
        /\ bdMessage \in InstallHintMessages
        /\ bdReturncode = NotRun
        /\ ~ bdStubWritten
        /\ bdWheelDir = {} /\ bdArchiveState = "none" /\ bdArchive = EmptyBag
        /\ bdResult = <<>>
        /\ bdCmd = <<>> => bdAttempts = <<>>

\* nim is not on PATH in a project that lists dependencies.
C22_Witness ==
    /\ bdNim = "missing" /\ bdPc = "failed"
    /\ bdCmd = <<>> /\ bdDeps # <<>> /\ bdAttempts = <<>>
    /\ bdError = "RuntimeError"

------------------------------------------------------------------------------
\* The install step has been passed: the build is at or beyond discovery.
InstallPassed ==
    \/ bdPc \notin {"check_nim", "load_config", "install_deps", "failed"}
    \/ bdPc = "failed" /\ (bdCmd # <<>> \/ bdError = "FileNotFoundError")

FailedRuns == {i \in 1..Len(bdAttempts) : bdAttempts[i].outcome = "failed"}

\* C23: nimble is run once per listed spec, in list order, with NIMBLE_DIR
\* set to the project's .nimble directory; a run that ends non-zero without
\* "already installed" is the last one, and the build ends there with an
\* error before the compiler command is built; otherwise every spec is
\* installed.  With an empty list nothing is run and nimble is not needed.
C23_InstallInOrderStopAtFailure ==
    /\ Len(bdAttempts) <= Len(bdDeps)
    /\ \A i \in 1..Len(bdAttempts) :
          /\ bdAttempts[i].cmd = <<"nimble", "install", "-y", bdDeps[i]>>
          /\ bdAttempts[i].NIMBLE_DIR = <<"/", "proj", "/", ".nimble">>
    /\ FailedRuns # {} =>
          /\ FailedRuns = {Len(bdAttempts)}
          /\ bdPc = "failed" /\ bdError = "RuntimeError"
          /\ bdCmd = <<>> /\ bdReturncode = NotRun
          /\ bdWheelDir = {} /\ bdResult = <<>>
    /\ InstallPassed => Len(bdAttempts) = Len(bdDeps) /\ FailedRuns = {}
    /\ bdDeps = <<>> =>
          /\ bdAttempts = <<>>
          /\ bdMessage # "nimble package manager not found in PATH"

\* The first of two specs fails: the second is never tried.
C23_Witness ==
    /\ Len(bdDeps) = 2 /\ Len(bdAttempts) = 1
    /\ bdAttempts[1].outcome = "failed"
    /\ bdPc = "failed" /\ bdError = "RuntimeError"

\* A spec that is already installed does not stop the build.
C23_WitnessAlreadyInstalled ==
    /\ Len(bdDeps) = 2 /\ Len(bdAttempts) = 2
    /\ bdAttempts[1].outcome = "already installed"
    /\ bdCmd # <<>>

------------------------------------------------------------------------------
(***************************************************************************)
(* C24: in watch mode at most one build executes at any time: the initial  *)
(* build of run_watch and the builds started by modification events never  *)
(* overlap.                                                                *)
(***************************************************************************)
C24_OneBuildAtATime == Cardinality(Building) <= 1

\* The builds started by events run one after the other on the observer's
\* dispatch thread: an event is only handled when that thread is idle.
C24_EventBuildsAreSerial ==
    [][OnModified => wtObserverPc = "idle"]_vars

------------------------------------------------------------------------------
(***************************************************************************)
(* C25: an event for a path ending in ".nim" that is handled less than     *)
(* debounce_delay after the last accepted event starts no build and leaves *)
(* last_compile unchanged; one handled debounce_delay or more after it is  *)
(* accepted, records its time as last_compile and starts exactly one       *)
(* build; consecutive event builds start at least debounce_delay apart; an *)
(* event for any other path starts no build and leaves last_compile alone. *)
(***************************************************************************)
\* What the handled events must have started, from the initial last_compile.
RECURSIVE ExpectedStarts(_, _)
ExpectedStarts(log, last) ==
    IF log = <<>> THEN <<>>
    ELSE LET e == Head(log)
             ok == EndsWithNim(e.path) /\ e.now - last >= DEFAULT_DEBOUNCE_DELAY
         IN  (IF ok THEN <<e.now>> ELSE <<>>)
             \o ExpectedStarts(Tail(log), IF ok THEN e.now ELSE last)

RECURSIVE ExpectedLastCompile(_, _)
ExpectedLastCompile(log, last) ==
    IF log = <<>> THEN last
    ELSE LET e == Head(log)
             ok == EndsWithNim(e.path) /\ e.now - last >= DEFAULT_DEBOUNCE_DELAY
         IN  ExpectedLastCompile(Tail(log), IF ok THEN e.now ELSE last)

C25_DroppedNotQueued ==
    [][OnModified =>
         /\ wtQueue' = Tail(wtQueue)
         /\ Len(wtStarts') - Len(wtStarts)
              = (IF wtLastCompile' # wtLastCompile THEN 1 ELSE 0)
         /\ (wtObserverPc' = "building") = (wtLastCompile' # wtLastCompile)]_vars

------------------------------------------------------------------------------
(***************************************************************************)
(* C26: a compilation failure's diagnostic is shown exactly once and is    *)
(* not wrapped again: format_error is empty for CalledProcessError and a   *)
(* prefixed message for every other exception (FileNotFoundError and       *)
(* RuntimeError as "Error", ValueError as "Configuration Error", any other *)
(* OSError as "System Error", the rest as "Unexpected Error (<type>)"), so *)
(* after the backend's diagnostic the handlers print no message, and       *)
(* handle_cli_error still exits with status 1.                             *)
(***************************************************************************)
ExpectedMessage(error) ==
    CASE IsInstance(error, "CalledProcessError") -> <<>>
      [] IsInstance(error, "FileNotFoundError") \/ IsInstance(error, "RuntimeError")
            -> <<"Error: ">> \o error.text
      [] IsInstance(error, "ValueError") -> <<"Configuration Error: ">> \o error.text
      [] IsInstance(error, "OSError") -> <<"System Error: ">> \o error.text
      [] OTHER -> <<"Unexpected Error (", error.type, "): ">> \o error.text

PrintedOfKind(kind) == SelectSeq(feStdout, LAMBDA item : item.kind = kind)

C26_DiagnosticShownOnce ==
    fePc = "handled" =>
        /\ FormatError(feError) = ExpectedMessage(feError)
        /\ IF feError.type = "CalledProcessError"
           THEN /\ Len(PrintedOfKind("diagnostic")) = 1
                /\ PrintedOfKind("error message") = <<>>
           ELSE /\ PrintedOfKind("diagnostic") = <<>>
                /\ PrintedOfKind("error message")
                      = <<[kind |-> "error message", text |-> ExpectedMessage(feError)]>>
                /\ ExpectedMessage(feError) # <<>>
        /\ (feMode = "cli") => feExit = 1

C26_Witness ==
    /\ fePc = "handled"
    /\ feMode = "cli"
    /\ feError.type = "CalledProcessError"
    /\ feStdout = <<[kind |-> "diagnostic", text |-> <<"format_compilation_error">>]>>
    /\ feExit = 1

C26_WitnessWatch ==
    /\ fePc = "handled"
    /\ feMode = "watch event"
    /\ feError.type = "CalledProcessError"
    /\ Len(feStdout) = 2
------------------------------------------------------------------------------
(***************************************************************************)
(* C27: for a readable file of L lines and 1 <= n <= L,                    *)
(* get_error_context(file, n, 2) returns exactly the lines max(1, n - 2)   *)
(* to min(L, n + 2) in order, each prefixed with its own 1-based number    *)
(* right-aligned in four columns, " > " after the number of line n and     *)
(* three blanks after the others, and the index of line n in that list; a  *)
(* file that cannot be read gives no lines and index 0.                    *)
(***************************************************************************)
\* The numbered line the claim describes for line k of the file.
ExpectedContextLine(source, k, n) ==
    Pad4(ToDigits(k))
    \o <<IF k = n THEN " > " ELSE "   ">>
    \o RStrip(FileLine(source, k))

C27_ContextAroundLine ==
    cxPc = "returned" =>
        IF ~ cxSource.readable
        THEN cxContext = <<>> /\ cxIndex = 0
        ELSE (1 <= cxLine /\ cxLine <= cxSource.len) =>
                LET first == Max({1, cxLine - 2})
                    last == Min({cxSource.len, cxLine + 2})
                IN  /\ Len(cxContext) = last - first + 1
                    /\ \A i \in 1..Len(cxContext) :
                          cxContext[i]
                            = ExpectedContextLine(cxSource, first + i - 1, cxLine)
                    /\ cxIndex = cxLine - first
                    /\ cxContext[cxIndex + 1][Len(Pad4(ToDigits(cxLine))) + 1]
                          = " > "

\* Line 5 of a file of six lines: lines 3 to 6 come back, the third marked.
C27_Witness ==
    /\ cxPc = "returned"
    /\ cxSource = [readable |-> TRUE, len |-> 6]
    /\ cxLine = 5
    /\ Len(cxContext) = 4
    /\ cxIndex = 2

C27_WitnessUnreadable ==
    /\ cxPc = "returned"
    /\ ~ cxSource.readable
    /\ cxLine = 1
------------------------------------------------------------------------------
(***************************************************************************)
(* C28: for every name and version, versions with a hyphen included, the   *)
(* tag build_wheel passes to _add_wheel_metadata for the "Tag:" line of    *)
(* WHEEL is the tag get_wheel_tags put into the file name.                 *)
(***************************************************************************)
C28_WheelTagIsFilenameTag ==
    wnPc = "named" => wnWheelTag = wnTag

\* It is, whenever the version has no hyphen.
C28_TagRecoveredWithoutHyphen ==
    (wnPc = "named" /\ Positions(wnVersion, "-") = {}) => wnWheelTag = wnTag
------------------------------------------------------------------------------
(***************************************************************************)
(* C29: the cleanup after packaging removes only what the build produced:  *)
(* when build_wheel has returned, every file it deleted is the compiled    *)
(* artifact, its stub or a DLL the build copied in, so a file that was in  *)
(* the artifact's directory before (a DLL that was already there, say) is  *)
(* still there, for .pyd and other artifacts alike.                        *)
(***************************************************************************)
BuildProducts ==
    {bdSoFile, CleanupPyiFile(bdSoFile, ConfigLibName(bdName))} \cup bdCopied

C29_OnlyBuildProductsRemoved ==
    (bdHook = "wheel" /\ bdPc = "done") => bdDeleted \subseteq BuildProducts

\* It does hold when the artifact is not a .pyd.
C29_OthersKeptUnlessPyd ==
    (bdHook = "wheel" /\ bdPc = "done" /\ Suffix(Last(bdSoFile)) # ".pyd")
        => bdDeleted \subseteq BuildProducts
------------------------------------------------------------------------------
(***************************************************************************)
(* C30: merge_cli_args leaves its inputs unchanged: after any number of    *)
(* calls the base dictionary with its nim_flags list and the override      *)
(* dictionary with its flag list hold the values they held before, every   *)
(* call has returned the same result, and the base flag list has not       *)
(* grown.                                                                  *)
(***************************************************************************)
C30_InputsUnchanged ==
    mgPc = "merged" =>
        /\ ConfigAt(mgHeap, Addr.config) = mgConfig
        /\ CliArgsAt(mgHeap, Addr.cli_args) = mgCli
        /\ Len(mgHeap[Addr.config_flags]) = Len(mgConfig.nim_flags)
        /\ \A i \in 1..Len(mgResults) :
              /\ mgResults[i].value = mgResults[1].value
              /\ ConfigAt(mgHeap, mgResults[i].addr) = mgResults[i].value

\* Two merges of a base with flags and overrides with flags.
C30_Witness ==
    /\ mgPc = "merged"
    /\ Len(mgResults) = 2
    /\ mgConfig.nim_flags # <<>>
    /\ mgCli.nim_flags.set /\ mgCli.nim_flags.val # <<>>
    /\ Len(mgResult.nim_flags) = Len(mgConfig.nim_flags) + Len(mgCli.nim_flags.val)
====
